---------------------------- MODULE Spec2Model ----------------------------
(***************************************************************************)
(* A model of ArrowClusterEngine (packages/arrow-supercluster): load, the  *)
(* bottom-up merge pass _cluster, the bounding-box query getClusters and    *)
(* the hierarchy navigation (getChildren, getLeaves,                        *)
(* getClusterExpansionZoom, getOriginZoom, getOriginId).                    *)
(*                                                                         *)
(* Numbers.  Doubles are fixed-point integers: one world width (the        *)
(* Mercator range 0..1) is WorldUnits units, so a degree of longitude is   *)
(* DegUnits units.  Math.fround (and the Float32Array of the KDBush index) *)
(* rounds to the nearest multiple of FroundStep.  A division of doubles is *)
(* an integer division.  JS arrays are 0-based; sequences here are 1-based,*)
(* so the item with JS index i sits at position i + 1.                      *)
(***************************************************************************)
EXTENDS Integers, Sequences, FiniteSets, TLC

\* ---------------------------------------------------------------- bounds
MaxRows == 3

\* ------------------------------------------------- constants of the code
STRIDE == 6
Infinity == 1000000
NaN == 999999

\* options of the constructor (ArrowClusterEngineOptions)
radius == 40
extent == 512
minZoom == 0
maxZoom == 2
minPoints == 2

\* ------------------------------------------------------- number system
DegUnits == 32
WorldUnits == 360 * DegUnits
FroundStep == 4

Deg(d) == d * DegUnits

RECURSIVE Pow2(_)
Pow2(n) == IF n <= 0 THEN 1 ELSE 2 * Pow2(n - 1)

Max(a, b) == IF a >= b THEN a ELSE b
Min(a, b) == IF a <= b THEN a ELSE b

\* Math.fround: nearest representable single-precision value
fround(v) == ((v + FroundStep \div 2) \div FroundStep) * FroundStep

\* ------------------------------------------------------------ mercator
\* lng / 360 + 0.5
lngX(lng) == lng + WorldUnits \div 2

\* (x - 0.5) * 360
xLng(x) == x - WorldUnits \div 2

\* Knots <<lat, y>> of 0.5 - 0.25 * ln((1 + sin)/(1 - sin)) / PI, rounded to
\* world units; between two knots the curve is interpolated linearly.
MercatorKnots ==
  << <<Deg(-90), 11520>>, <<Deg(-85), 11501>>, <<Deg(-10), 6082>>,
     <<Deg(0), 5760>>, <<Deg(10), 5438>>, <<Deg(20), 5107>>,
     <<Deg(85), 19>>, <<Deg(90), 0>> >>

\* latitude to Mercator y, clamped to [0, 1]
latY(lat) ==
  IF lat <= MercatorKnots[1][1] THEN WorldUnits
  ELSE IF lat >= MercatorKnots[Len(MercatorKnots)][1] THEN 0
  ELSE LET k == CHOOSE j \in 1..(Len(MercatorKnots) - 1) :
                  MercatorKnots[j][1] <= lat /\ lat < MercatorKnots[j + 1][1]
           a == MercatorKnots[k]
           b == MercatorKnots[k + 1]
           y == a[2] - ((a[2] - b[2]) * (lat - a[1])) \div (b[1] - a[1])
       IN  IF y < 0 THEN 0 ELSE IF y > WorldUnits THEN WorldUnits ELSE y

\* Mercator y to latitude (360 * atan(exp(y2)) / PI - 90)
yLat(y) ==
  IF y <= 0 THEN MercatorKnots[Len(MercatorKnots)][1]
  ELSE IF y >= WorldUnits THEN MercatorKnots[1][1]
  ELSE LET k == CHOOSE j \in 1..(Len(MercatorKnots) - 1) :
                  MercatorKnots[j + 1][2] <= y /\ y < MercatorKnots[j][2]
           a == MercatorKnots[k]
           b == MercatorKnots[k + 1]
       IN  b[1] - ((b[1] - a[1]) * (y - b[2])) \div (a[2] - b[2])

\* --------------------------------------------------------------- KDBush
\* The index of one level: the (x, y) of every item in insertion order, held
\* in a Float32Array.  With at most 64 items the index is one leaf bucket,
\* so range and within report the matching items by ascending index.
createTree(data) == [i \in 1..Len(data) |-> [x |-> fround(data[i].x), y |-> fround(data[i].y)]]

\* the ascending sequence of the members of a finite set of integers
RECURSIVE SortedSeq(_)
SortedSeq(S) ==
  IF S = {} THEN << >>
  ELSE LET m == CHOOSE v \in S : \A w \in S : v <= w
       IN  <<m>> \o SortedSeq(S \ {m})

\* range leaving out the items on the upper edges of the box
range_halfOpen(tree, minX, minY, maxX, maxY) ==
  SortedSeq({i - 1 : i \in {j \in 1..Len(tree) :
     /\ tree[j].x >= minX /\ tree[j].x < maxX
     /\ tree[j].y >= minY /\ tree[j].y < maxY}})

\* tree.range(minX, minY, maxX, maxY): 0-based item ids
range(tree, minX, minY, maxX, maxY) ==
  SortedSeq({i - 1 : i \in {j \in 1..Len(tree) :
     /\ tree[j].x >= minX /\ tree[j].x <= maxX
     /\ tree[j].y >= minY /\ tree[j].y <= maxY}})

\* within leaving out the items at the query point itself
within_withoutCentre(tree, qx, qy, r) ==
  IF qx = NaN \/ qy = NaN THEN << >>
  ELSE SortedSeq({i - 1 : i \in {j \in 1..Len(tree) :
     /\ (tree[j].x - qx) * (tree[j].x - qx) + (tree[j].y - qy) * (tree[j].y - qy)
          <= r * r
     /\ (tree[j].x - qx) * (tree[j].x - qx) + (tree[j].y - qy) * (tree[j].y - qy)
          > 0}})

\* tree.within(qx, qy, r): 0-based item ids; an undefined query point
\* (NaN) matches nothing
within(tree, qx, qy, r) ==
  IF qx = NaN \/ qy = NaN THEN << >>
  ELSE SortedSeq({i - 1 : i \in {j \in 1..Len(tree) :
     (tree[j].x - qx) * (tree[j].x - qx) + (tree[j].y - qy) * (tree[j].y - qy)
        <= r * r}})

\* this.radius / (this.extent * Math.pow(2, zoom)), for zoom >= -1
radiusAt(zoom) == (radius * WorldUnits * 2) \div (extent * Pow2(zoom + 1))

\* ---------------------------------------------------------- cluster ids
\* n << 5 on a 32-bit integer
Shl5(n) ==
  LET m == n % 134217728
  IN  IF m >= 67108864 THEN (m - 134217728) * 32 ELSE m * 32

\* a % 32 of JavaScript: the sign follows the dividend
Rem32(a) == IF a >= 0 THEN a % 32 ELSE 0 - ((0 - a) % 32)

\* encodeId with the index shifted by one bit less, so that it overlaps the
\* zoom field
encodeId_shortShift(e, index, zoom) == index * 16 + (zoom + 1) + e.numPoints

\* encodeId without the offset this.numPoints
encodeId_noOffset(e, index, zoom) == Shl5(index) + (zoom + 1)

\* encodeId with the zoom of the pass in place of the origin zoom
encodeId_passZoom(e, index, zoom) == Shl5(index) + zoom + e.numPoints

\* (((i / STRIDE) | 0) << 5) + (zoom + 1) + this.numPoints
encodeId(e, index, zoom) == Shl5(index) + (zoom + 1) + e.numPoints

\* (clusterId - this.numPoints) % 32
getOriginZoom(e, clusterId) == Rem32(clusterId - e.numPoints)

\* (clusterId - this.numPoints) >> 5
getOriginId(e, clusterId) == (clusterId - e.numPoints) \div 32

\* ------------------------------------------------------------- _cluster
\* SumNum counting the neighbours instead of adding their point counts
SumNum_countItems(data, ids) == Len(ids)

\* the loop of lines 369-372: the point counts of the given items, added up
RECURSIVE SumNum(_, _)
SumNum(data, ids) ==
  IF ids = << >> THEN 0
  ELSE data[Head(ids) + 1].num + SumNum(data, Tail(ids))

RECURSIVE SumWeighted(_, _, _)
SumWeighted(data, ids, f) ==
  IF ids = << >> THEN 0
  ELSE data[Head(ids) + 1][f] * data[Head(ids) + 1].num
         + SumWeighted(data, Tail(ids), f)

\* FilterIds keeping the items already processed at this zoom
RECURSIVE FilterIds_includesProcessed(_, _, _)
FilterIds_includesProcessed(data, ids, zoom) ==
  IF ids = << >> THEN << >>
  ELSE IF data[Head(ids) + 1].zoom >= zoom
       THEN <<Head(ids)>> \o FilterIds_includesProcessed(data, Tail(ids), zoom)
       ELSE FilterIds_includesProcessed(data, Tail(ids), zoom)

\* the ids whose item is not yet processed at this zoom, in order
RECURSIVE FilterIds(_, _, _)
FilterIds(data, ids, zoom) ==
  IF ids = << >> THEN << >>
  ELSE IF data[Head(ids) + 1].zoom > zoom
       THEN <<Head(ids)>> \o FilterIds(data, Tail(ids), zoom)
       ELSE FilterIds(data, Tail(ids), zoom)

InSeq(v, s) == \E j \in 1..Len(s) : s[j] = v

\* clusterItem leaving the neighbours of a failed merge unmarked
clusterItem_noMarkOnFailedMerge(e, tree, data, zoom, n, nextData) ==
  IF data[n + 1].zoom <= zoom THEN [data |-> data, nextData |-> nextData]
  ELSE
    LET data1 == [data EXCEPT ![n + 1].zoom = zoom]
        x == data[n + 1].x
        y == data[n + 1].y
        neighborIds == within(tree, x, y, radiusAt(zoom))
        open == FilterIds(data1, neighborIds, zoom)
        numPointsOrigin == data[n + 1].num
        numPoints == numPointsOrigin + SumNum(data1, open)
    IN
      IF numPoints > numPointsOrigin /\ numPoints >= e.minPoints
      THEN
        LET wx == x * numPointsOrigin + SumWeighted(data1, open, "x")
            wy == y * numPointsOrigin + SumWeighted(data1, open, "y")
            id == encodeId(e, n, zoom)
            data2 == [q \in 1..Len(data1) |->
                        IF InSeq(q - 1, open)
                        THEN [data1[q] EXCEPT !.zoom = zoom, !.parent = id]
                        ELSE IF q = n + 1
                             THEN [data1[q] EXCEPT !.parent = id]
                             ELSE data1[q]]
        IN  [data |-> data2,
             nextData |-> Append(nextData,
                [x |-> wx \div numPoints, y |-> wy \div numPoints,
                 zoom |-> Infinity, id |-> id, parent |-> -1,
                 num |-> numPoints])]
      ELSE
        IF numPoints > 1
        THEN
          LET data2 == [q \in 1..Len(data1) |->
                          IF InSeq(q - 1, open)
                          THEN [data1[q] EXCEPT !.zoom = zoom]
                          ELSE data1[q]]
          IN  [data |-> data1,
               nextData |-> Append(nextData, data1[n + 1])
                              \o [j \in 1..Len(open) |-> data2[open[j] + 1]]]
        ELSE [data |-> data1, nextData |-> Append(nextData, data1[n + 1])]

\* clusterItem that merges whenever a neighbour is open, whatever minPoints
clusterItem_ignoresMinPoints(e, tree, data, zoom, n, nextData) ==
  IF data[n + 1].zoom <= zoom THEN [data |-> data, nextData |-> nextData]
  ELSE
    LET data1 == [data EXCEPT ![n + 1].zoom = zoom]
        x == data[n + 1].x
        y == data[n + 1].y
        neighborIds == within(tree, x, y, radiusAt(zoom))
        open == FilterIds(data1, neighborIds, zoom)
        numPointsOrigin == data[n + 1].num
        numPoints == numPointsOrigin + SumNum(data1, open)
    IN
      IF numPoints > numPointsOrigin
      THEN
        LET wx == x * numPointsOrigin + SumWeighted(data1, open, "x")
            wy == y * numPointsOrigin + SumWeighted(data1, open, "y")
            id == encodeId(e, n, zoom)
            data2 == [q \in 1..Len(data1) |->
                        IF InSeq(q - 1, open)
                        THEN [data1[q] EXCEPT !.zoom = zoom, !.parent = id]
                        ELSE IF q = n + 1
                             THEN [data1[q] EXCEPT !.parent = id]
                             ELSE data1[q]]
        IN  [data |-> data2,
             nextData |-> Append(nextData,
                [x |-> wx \div numPoints, y |-> wy \div numPoints,
                 zoom |-> Infinity, id |-> id, parent |-> -1,
                 num |-> numPoints])]
      ELSE
        IF numPoints > 1
        THEN
          LET data2 == [q \in 1..Len(data1) |->
                          IF InSeq(q - 1, open)
                          THEN [data1[q] EXCEPT !.zoom = zoom]
                          ELSE data1[q]]
          IN  [data |-> data2,
               nextData |-> Append(nextData, data1[n + 1])
                              \o [j \in 1..Len(open) |-> data2[open[j] + 1]]]
        ELSE [data |-> data1, nextData |-> Append(nextData, data1[n + 1])]

\* One iteration of the loop over data (item n, 0-based) of _cluster:
\* the updated data of the level above and the grown nextData.
clusterItem(e, tree, data, zoom, n, nextData) ==
  IF data[n + 1].zoom <= zoom THEN [data |-> data, nextData |-> nextData]
  ELSE
    LET data1 == [data EXCEPT ![n + 1].zoom = zoom]
        x == data[n + 1].x
        y == data[n + 1].y
        neighborIds == within(tree, x, y, radiusAt(zoom))
        open == FilterIds(data1, neighborIds, zoom)
        numPointsOrigin == data[n + 1].num
        numPoints == numPointsOrigin + SumNum(data1, open)
    IN
      IF numPoints > numPointsOrigin /\ numPoints >= e.minPoints
      THEN
        LET wx == x * numPointsOrigin + SumWeighted(data1, open, "x")
            wy == y * numPointsOrigin + SumWeighted(data1, open, "y")
            id == encodeId(e, n, zoom)
            data2 == [q \in 1..Len(data1) |->
                        IF InSeq(q - 1, open)
                        THEN [data1[q] EXCEPT !.zoom = zoom, !.parent = id]
                        ELSE IF q = n + 1
                             THEN [data1[q] EXCEPT !.parent = id]
                             ELSE data1[q]]
        IN  [data |-> data2,
             nextData |-> Append(nextData,
                [x |-> wx \div numPoints, y |-> wy \div numPoints,
                 zoom |-> Infinity, id |-> id, parent |-> -1,
                 num |-> numPoints])]
      ELSE
        IF numPoints > 1
        THEN
          LET data2 == [q \in 1..Len(data1) |->
                          IF InSeq(q - 1, open)
                          THEN [data1[q] EXCEPT !.zoom = zoom]
                          ELSE data1[q]]
          IN  [data |-> data2,
               nextData |-> Append(nextData, data1[n + 1])
                              \o [j \in 1..Len(open) |-> data2[open[j] + 1]]]
        ELSE [data |-> data1, nextData |-> Append(nextData, data1[n + 1])]

RECURSIVE clusterLoop(_, _, _, _, _, _)
clusterLoop(e, tree, data, zoom, n, nextData) ==
  IF n >= Len(data) THEN [data |-> data, nextData |-> nextData]
  ELSE LET s == clusterItem(e, tree, data, zoom, n, nextData)
       IN  clusterLoop(e, tree, s.data, zoom, n + 1, s.nextData)

\* _cluster(tree, data, zoom): data is marked in place, nextData is returned
cluster(e, tree, data, zoom) == clusterLoop(e, tree, data, zoom, 0, << >>)

\* ----------------------------------------------------------------- load
Levels == minZoom..(maxZoom + 1)

\* getCoordBuffer: the interleaved [lng0, lat0, lng1, lat1, ...] buffer
getCoordBuffer(geomCol) ==
  [j \in 1..(2 * Len(geomCol)) |-> geomCol[(j + 1) \div 2][2 - (j % 2)]]

\* leafData without the NaN test
RECURSIVE leafData_noNaNTest(_, _, _, _)
leafData_noNaNTest(coordValues, filterMask, numRows, i) ==
  IF i >= numRows THEN << >>
  ELSE
    LET rest == leafData_noNaNTest(coordValues, filterMask, numRows, i + 1)
    IN  IF filterMask.given /\ filterMask.bits[i + 1] = 0 THEN rest
        ELSE << [x |-> fround(lngX(coordValues[i * 2 + 1])),
                 y |-> fround(latY(coordValues[i * 2 + 2])),
                 zoom |-> Infinity, id |-> i, parent |-> -1, num |-> 1] >>
               \o rest

\* leafData without the filterMask test
RECURSIVE leafData_noMaskTest(_, _, _, _)
leafData_noMaskTest(coordValues, filterMask, numRows, i) ==
  IF i >= numRows THEN << >>
  ELSE
    LET lng == coordValues[i * 2 + 1]
        lat == coordValues[i * 2 + 2]
        rest == leafData_noMaskTest(coordValues, filterMask, numRows, i + 1)
    IN  IF lng = NaN \/ lat = NaN THEN rest
        ELSE << [x |-> fround(lngX(lng)), y |-> fround(latY(lat)),
                 zoom |-> Infinity, id |-> i, parent |-> -1, num |-> 1] >>
               \o rest

\* leafData leaving the loop at the first masked row (break for continue)
RECURSIVE leafData_breakAtMasked(_, _, _, _)
leafData_breakAtMasked(coordValues, filterMask, numRows, i) ==
  IF i >= numRows THEN << >>
  ELSE
    LET lng == coordValues[i * 2 + 1]
        lat == coordValues[i * 2 + 2]
        rest == leafData_breakAtMasked(coordValues, filterMask, numRows, i + 1)
    IN  IF filterMask.given /\ filterMask.bits[i + 1] = 0 THEN << >>
        ELSE IF lng = NaN \/ lat = NaN THEN rest
        ELSE << [x |-> fround(lngX(lng)), y |-> fround(latY(lat)),
                 zoom |-> Infinity, id |-> i, parent |-> -1, num |-> 1] >>
               \o rest

\* the loop of load over the rows i .. numPoints - 1
RECURSIVE leafData(_, _, _, _)
leafData(coordValues, filterMask, numRows, i) ==
  IF i >= numRows THEN << >>
  ELSE
    LET lng == coordValues[i * 2 + 1]
        lat == coordValues[i * 2 + 2]
        rest == leafData(coordValues, filterMask, numRows, i + 1)
    IN  IF filterMask.given /\ filterMask.bits[i + 1] = 0 THEN rest
        ELSE IF lng = NaN \/ lat = NaN THEN rest
        ELSE << [x |-> fround(lngX(lng)), y |-> fround(latY(lat)),
                 zoom |-> Infinity, id |-> i, parent |-> -1, num |-> 1] >>
               \o rest

\* buildLevels keeping the merged items as the level the pass has read
RECURSIVE buildLevels_storesMerged(_, _, _)
buildLevels_storesMerged(e, z, td) ==
  IF z < minZoom THEN td
  ELSE LET c == cluster(e, createTree(td[z + 1]), td[z + 1], z)
       IN  buildLevels_storesMerged(e, z - 1,
             [k \in z..(maxZoom + 1) |->
                IF k = z THEN c.nextData
                ELSE IF k = z + 1 THEN c.nextData ELSE td[k]])

\* the loop "for z = maxZoom down to minZoom" of load; td holds the data of
\* the levels z + 1 .. maxZoom + 1
RECURSIVE buildLevels(_, _, _)
buildLevels(e, z, td) ==
  IF z < minZoom THEN td
  ELSE LET c == cluster(e, createTree(td[z + 1]), td[z + 1], z)
       IN  buildLevels(e, z - 1,
             [k \in z..(maxZoom + 1) |->
                IF k = z THEN c.nextData
                ELSE IF k = z + 1 THEN c.data ELSE td[k]])

ZeroArray(n) == [j \in 1..n |-> 0]

\* load keeping a level of the previous load where the new level is empty
load_keepLevels(e, table, filterMask) ==
  LET e1 == [e EXCEPT !.numPoints = table.numRows]
  IN
    IF ~table.hasGeometry THEN [engine |-> e1, threw |-> TRUE]
    ELSE
      LET coordValues == getCoordBuffer(table.geometry)
          e2 == [e1 EXCEPT !.coordValues = coordValues]
          data == leafData(coordValues, filterMask, e2.numPoints, 0)
          td == buildLevels(e2, maxZoom,
                  [k \in {maxZoom + 1} |-> data])
          maxItems == Len(td[maxZoom + 1])
      IN  [engine |->
             [e2 EXCEPT
               !.treeData = [k \in (DOMAIN e.treeData) \cup Levels |->
                               IF k \in Levels /\ (td[k] # << >> \/ k \notin DOMAIN e.treeData)
                               THEN td[k] ELSE e.treeData[k]],
               !.trees = [k \in (DOMAIN e.trees) \cup Levels |->
                            IF k \in Levels /\ (td[k] # << >> \/ k \notin DOMAIN e.trees)
                            THEN createTree(td[k])
                            ELSE e.trees[k]],
               !.bufPositions = ZeroArray(maxItems * 2),
               !.bufPointCounts = ZeroArray(maxItems),
               !.bufIds = ZeroArray(maxItems),
               !.bufIsCluster = ZeroArray(maxItems)],
           threw |-> FALSE]

\* load allocating the buffers for the number of nodes of level minZoom
load_buffersOfLowestLevel(e, table, filterMask) ==
  LET e1 == [e EXCEPT !.numPoints = table.numRows]
  IN
    IF ~table.hasGeometry THEN [engine |-> e1, threw |-> TRUE]
    ELSE
      LET coordValues == getCoordBuffer(table.geometry)
          e2 == [e1 EXCEPT !.coordValues = coordValues]
          data == leafData(coordValues, filterMask, e2.numPoints, 0)
          td == buildLevels(e2, maxZoom,
                  [k \in {maxZoom + 1} |-> data])
          maxItems == Len(td[minZoom])
      IN  [engine |->
             [e2 EXCEPT
               !.treeData = [k \in (DOMAIN e.treeData) \cup Levels |->
                               IF k \in Levels THEN td[k] ELSE e.treeData[k]],
               !.trees = [k \in (DOMAIN e.trees) \cup Levels |->
                            IF k \in Levels THEN createTree(td[k])
                            ELSE e.trees[k]],
               !.bufPositions = ZeroArray(maxItems * 2),
               !.bufPointCounts = ZeroArray(maxItems),
               !.bufIds = ZeroArray(maxItems),
               !.bufIsCluster = ZeroArray(maxItems)],
           threw |-> FALSE]

\* load(table, geometryColumn, _idColumn, filterMask): the engine after the
\* call and whether the call threw
load(e, table, filterMask) ==
  LET e1 == [e EXCEPT !.numPoints = table.numRows]
  IN
    IF ~table.hasGeometry THEN [engine |-> e1, threw |-> TRUE]
    ELSE
      LET coordValues == getCoordBuffer(table.geometry)
          e2 == [e1 EXCEPT !.coordValues = coordValues]
          data == leafData(coordValues, filterMask, e2.numPoints, 0)
          td == buildLevels(e2, maxZoom,
                  [k \in {maxZoom + 1} |-> data])
          maxItems == Len(td[maxZoom + 1])
      IN  [engine |->
             [e2 EXCEPT
               !.treeData = [k \in (DOMAIN e.treeData) \cup Levels |->
                               IF k \in Levels THEN td[k] ELSE e.treeData[k]],
               !.trees = [k \in (DOMAIN e.trees) \cup Levels |->
                            IF k \in Levels THEN createTree(td[k])
                            ELSE e.trees[k]],
               !.bufPositions = ZeroArray(maxItems * 2),
               !.bufPointCounts = ZeroArray(maxItems),
               !.bufIds = ZeroArray(maxItems),
               !.bufIsCluster = ZeroArray(maxItems)],
           threw |-> FALSE]

\* indexedPointCount answering the row count of the table
indexedPointCount_rowCount(e) == e.numPoints

\* get indexedPointCount
indexedPointCount(e) ==
  IF (maxZoom + 1) \in DOMAIN e.treeData
  THEN Len(e.treeData[maxZoom + 1])
  ELSE 0

\* ---------------------------------------------------------- getClusters
\* A ClusterOutput.  view = TRUE: the four arrays are subarray views of the
\* engine's reusable buffers and are read through the engine (deref);
\* view = FALSE: the arrays are owned by the output.
emptyOutput ==
  [view |-> FALSE, length |-> 0, positions |-> << >>, pointCounts |-> << >>,
   ids |-> << >>, isCluster |-> << >>]

\* typedArray.subarray(0, n)
subarray(buf, n) == SubSeq(buf, 1, Min(n, Len(buf)))

\* the contents a caller reads from a ClusterOutput, given the engine now
deref(e, o) ==
  IF o.view
  THEN [length |-> o.length,
        positions |-> subarray(e.bufPositions, o.length * 2),
        pointCounts |-> subarray(e.bufPointCounts, o.length),
        ids |-> subarray(e.bufIds, o.length),
        isCluster |-> subarray(e.bufIsCluster, o.length)]
  ELSE [length |-> o.length, positions |-> o.positions,
        pointCounts |-> o.pointCounts, ids |-> o.ids,
        isCluster |-> o.isCluster]

\* dst.set(src, offset) of a typed array
setArray(dst, src, offset) ==
  [j \in 1..Len(dst) |->
     IF j > offset /\ j <= offset + Len(src) THEN src[j - offset] ELSE dst[j]]

\* _mergeOutputs(a, b), a and b already read through the engine
mergeOutputs(a, b) ==
  LET length == a.length + b.length
  IN  [view |-> FALSE, length |-> length,
       positions |-> setArray(setArray(ZeroArray(length * 2), a.positions, 0),
                              b.positions, a.length * 2),
       pointCounts |-> setArray(setArray(ZeroArray(length), a.pointCounts, 0),
                                b.pointCounts, a.length),
       ids |-> setArray(setArray(ZeroArray(length), a.ids, 0),
                        b.ids, a.length),
       isCluster |-> setArray(setArray(ZeroArray(length), a.isCluster, 0),
                              b.isCluster, a.length)]

\* limitZoom with Math.round for Math.floor
limitZoom_round(zoom) == Max(minZoom, Min((zoom + 1) \div 2, maxZoom + 1))

\* Math.max(minZoom, Math.min(Math.floor(+zoom), maxZoom + 1)); a zoom
\* argument counts half levels, so Math.floor is the division by 2
limitZoom(zoom) == Max(minZoom, Min(zoom \div 2, maxZoom + 1))

\* ((((lng + 180) % 360) + 360) % 360) - 180
wrapLng(lng) == ((lng + Deg(180)) % Deg(360)) - Deg(180)

\* entryLng projecting every item back from its Mercator x
entryLng_fromMercator(e, node) == xLng(node.x)

\* position and flag of an item of a level: a cluster is projected back, a
\* point is read from the caller's coordinate buffer
entryLng(e, node) ==
  IF node.num > 1 THEN xLng(node.x) ELSE e.coordValues[node.id * 2 + 1]

entryLat(e, node) ==
  IF node.num > 1 THEN yLat(node.y) ELSE e.coordValues[node.id * 2 + 2]

\* entryIsCluster flagging every entry that has a weight
entryIsCluster_anyWeight(node) == IF node.num >= 1 THEN 1 ELSE 0

entryIsCluster(node) == IF node.num > 1 THEN 1 ELSE 0

\* queryLevel writing the queried zoom into the items it reports
queryLevel_marksHits(e, minLng, minLat, maxLng, maxLat, zoom) ==
  LET z == limitZoom(zoom)
  IN
    IF z \notin DOMAIN e.trees \/ z \notin DOMAIN e.treeData
    THEN [engine |-> e, out |-> emptyOutput]
    ELSE
      LET data == e.treeData[z]
          resultIds == range(e.trees[z], lngX(minLng), latY(maxLat),
                             lngX(maxLng), latY(minLat))
          length == Len(resultIds)
          hit == [i \in 1..length |-> data[resultIds[i] + 1]]
          lng == [i \in 1..length |-> entryLng(e, hit[i])]
          lat == [i \in 1..length |-> entryLat(e, hit[i])]
      IN  [engine |->
             [e EXCEPT
               !.treeData[z] = [q \in 1..Len(data) |->
                  IF InSeq(q - 1, resultIds)
                  THEN [data[q] EXCEPT !.zoom = z] ELSE data[q]],
               !.bufPositions = [j \in 1..Len(e.bufPositions) |->
                  IF j <= length * 2
                  THEN IF j % 2 = 1 THEN lng[(j + 1) \div 2]
                       ELSE lat[(j + 1) \div 2]
                  ELSE e.bufPositions[j]],
               !.bufPointCounts = [j \in 1..Len(e.bufPointCounts) |->
                  IF j <= length THEN hit[j].num ELSE e.bufPointCounts[j]],
               !.bufIds = [j \in 1..Len(e.bufIds) |->
                  IF j <= length THEN hit[j].id ELSE e.bufIds[j]],
               !.bufIsCluster = [j \in 1..Len(e.bufIsCluster) |->
                  IF j <= length THEN entryIsCluster(hit[j])
                  ELSE e.bufIsCluster[j]]],
           out |-> [view |-> TRUE, length |-> length, positions |-> << >>,
                    pointCounts |-> << >>, ids |-> << >>,
                    isCluster |-> << >>]]

\* the part of getClusters after the bbox is normalized (lines 145-192):
\* writes the hits into the reusable buffers (a write past the end of a
\* typed array is dropped) and returns a view
queryLevel(e, minLng, minLat, maxLng, maxLat, zoom) ==
  LET z == limitZoom(zoom)
  IN
    IF z \notin DOMAIN e.trees \/ z \notin DOMAIN e.treeData
    THEN [engine |-> e, out |-> emptyOutput]
    ELSE
      LET data == e.treeData[z]
          resultIds == range(e.trees[z], lngX(minLng), latY(maxLat),
                             lngX(maxLng), latY(minLat))
          length == Len(resultIds)
          hit == [i \in 1..length |-> data[resultIds[i] + 1]]
          lng == [i \in 1..length |-> entryLng(e, hit[i])]
          lat == [i \in 1..length |-> entryLat(e, hit[i])]
      IN  [engine |->
             [e EXCEPT
               !.bufPositions = [j \in 1..Len(e.bufPositions) |->
                  IF j <= length * 2
                  THEN IF j % 2 = 1 THEN lng[(j + 1) \div 2]
                       ELSE lat[(j + 1) \div 2]
                  ELSE e.bufPositions[j]],
               !.bufPointCounts = [j \in 1..Len(e.bufPointCounts) |->
                  IF j <= length THEN hit[j].num ELSE e.bufPointCounts[j]],
               !.bufIds = [j \in 1..Len(e.bufIds) |->
                  IF j <= length THEN hit[j].id ELSE e.bufIds[j]],
               !.bufIsCluster = [j \in 1..Len(e.bufIsCluster) |->
                  IF j <= length THEN entryIsCluster(hit[j])
                  ELSE e.bufIsCluster[j]]],
           out |-> [view |-> TRUE, length |-> length, positions |-> << >>,
                    pointCounts |-> << >>, ids |-> << >>,
                    isCluster |-> << >>]]

\* getClusters(bbox, zoom): the engine after the call and the returned output
RECURSIVE getClusters(_, _, _)
getClusters(e, bbox, zoom) ==
  LET minLng == wrapLng(bbox[1])
      minLat == Max(Deg(-90), Min(Deg(90), bbox[2]))
      maxLng == IF bbox[3] = Deg(180) THEN Deg(180) ELSE wrapLng(bbox[3])
      maxLat == Max(Deg(-90), Min(Deg(90), bbox[4]))
  IN
    IF bbox[3] - bbox[1] >= Deg(360)
    THEN queryLevel(e, Deg(-180), minLat, Deg(180), maxLat, zoom)
    ELSE IF minLng > maxLng
    THEN
      LET eastern == getClusters(e, <<minLng, minLat, Deg(180), maxLat>>, zoom)
          western == getClusters(eastern.engine,
                                 <<Deg(-180), minLat, maxLng, maxLat>>, zoom)
      IN  [engine |-> western.engine,
           out |-> mergeOutputs(deref(western.engine, eastern.out),
                                deref(western.engine, western.out))]
    ELSE queryLevel(e, minLng, minLat, maxLng, maxLat, zoom)

\* ------------------------------------------------- hierarchy navigation
\* childrenOf leaving the loop at the first child found
RECURSIVE childrenOf_firstOnly(_, _, _)
childrenOf_firstOnly(data, ids, clusterId) ==
  IF ids = << >> THEN << >>
  ELSE IF data[Head(ids) + 1].parent = clusterId
       THEN <<Head(ids)>>
       ELSE childrenOf_firstOnly(data, Tail(ids), clusterId)

\* childrenOf keeping every neighbour that has a parent, whichever it is
RECURSIVE childrenOf_anyParent(_, _, _)
childrenOf_anyParent(data, ids, clusterId) ==
  IF ids = << >> THEN << >>
  ELSE IF data[Head(ids) + 1].parent # -1
       THEN <<Head(ids)>> \o childrenOf_anyParent(data, Tail(ids), clusterId)
       ELSE childrenOf_anyParent(data, Tail(ids), clusterId)

\* the loop over neighborIds of _getChildIndices: the ids whose item has
\* clusterId as its parent, in order
RECURSIVE childrenOf(_, _, _)
childrenOf(data, ids, clusterId) ==
  IF ids = << >> THEN << >>
  ELSE IF data[Head(ids) + 1].parent = clusterId
       THEN <<Head(ids)>> \o childrenOf(data, Tail(ids), clusterId)
       ELSE childrenOf(data, Tail(ids), clusterId)

\* _getChildIndices(clusterId): the 0-based indices of the children within
\* the level of the cluster's origin zoom, and that level's data
getChildIndices(e, clusterId) ==
  LET originId == getOriginId(e, clusterId)
      originZoom == getOriginZoom(e, clusterId)
      emptyResult == [indices |-> << >>, data |-> << >>]
  IN
    IF originZoom \notin DOMAIN e.trees \/ originZoom \notin DOMAIN e.treeData
    THEN emptyResult
    ELSE
      LET data == e.treeData[originZoom]
      IN
        IF originId * STRIDE >= Len(data) * STRIDE THEN emptyResult
        ELSE
          LET x == IF originId < 0 THEN NaN ELSE data[originId + 1].x
              y == IF originId < 0 THEN NaN ELSE data[originId + 1].y
              neighborIds == within(e.trees[originZoom], x, y,
                                    radiusAt(originZoom - 1))
          IN  [indices |-> childrenOf(data, neighborIds, clusterId),
               data |-> data]

\* getChildren(clusterId)
getChildren(e, clusterId) ==
  LET c == getChildIndices(e, clusterId)
      length == Len(c.indices)
      hit == [i \in 1..length |-> c.data[c.indices[i] + 1]]
  IN
    IF length = 0 THEN emptyOutput
    ELSE [view |-> FALSE, length |-> length,
          positions |-> [j \in 1..(length * 2) |->
             IF j % 2 = 1 THEN entryLng(e, hit[(j + 1) \div 2])
             ELSE entryLat(e, hit[(j + 1) \div 2])],
          pointCounts |-> [j \in 1..length |-> hit[j].num],
          ids |-> [j \in 1..length |-> hit[j].id],
          isCluster |-> [j \in 1..length |-> entryIsCluster(hit[j])]]

\* _appendLeafIndices(result, clusterId, limit, offset, skipped) and the
\* loop over the children from position i on; both give the grown result,
\* the skipped count and whether the call returned from inside the loop
RECURSIVE appendLeafIndices(_, _, _, _, _, _)
RECURSIVE leafLoop(_, _, _, _, _, _, _)
leafLoop(e, c, i, result, limit, offset, skipped) ==
  IF i >= Len(c.indices) THEN [result |-> result, skipped |-> skipped]
  ELSE
    LET node == c.data[c.indices[i + 1] + 1]
        numPts == node.num
    IN
      IF numPts > 1
      THEN
        IF skipped + numPts <= offset
        THEN leafLoop(e, c, i + 1, result, limit, offset, skipped + numPts)
        ELSE
          LET sub == appendLeafIndices(e, result, node.id, limit, offset,
                                       skipped)
          IN  IF Len(sub.result) >= limit THEN sub
              ELSE leafLoop(e, c, i + 1, sub.result, limit, offset,
                            sub.skipped)
      ELSE
        IF skipped < offset
        THEN leafLoop(e, c, i + 1, result, limit, offset, skipped + 1)
        ELSE
          LET pushed == Append(result, node.id)
          IN  IF Len(pushed) >= limit
              THEN [result |-> pushed, skipped |-> skipped]
              ELSE leafLoop(e, c, i + 1, pushed, limit, offset, skipped)

appendLeafIndices(e, result, clusterId, limit, offset, skipped) ==
  leafLoop(e, getChildIndices(e, clusterId), 0, result, limit, offset, skipped)

\* getLeaves that skips one leaf more than the offset
getLeaves_skipsOneMore(e, clusterId, limit, offset) ==
  appendLeafIndices(e, << >>, clusterId, limit, offset + 1, 0).result

\* getLeaves(clusterId, limit = Infinity, offset = 0)
getLeaves(e, clusterId, limit, offset) ==
  appendLeafIndices(e, << >>, clusterId, limit, offset, 0).result

\* the while loop of getClusterExpansionZoom
RECURSIVE expansionLoop(_, _, _)
expansionLoop(e, clusterId, expansionZoom) ==
  IF expansionZoom > maxZoom THEN expansionZoom
  ELSE
    LET c == getChildIndices(e, clusterId)
    IN  IF Len(c.indices) # 1 THEN expansionZoom + 1
        ELSE IF c.data[c.indices[1] + 1].num > 1
             THEN expansionLoop(e, c.data[c.indices[1] + 1].id,
                                expansionZoom + 1)
             ELSE expansionZoom + 1

\* getClusterExpansionZoom that starts at the origin zoom
getClusterExpansionZoom_fromOriginZoom(e, clusterId) ==
  expansionLoop(e, clusterId, getOriginZoom(e, clusterId))

\* getClusterExpansionZoom(clusterId)
getClusterExpansionZoom(e, clusterId) ==
  expansionLoop(e, clusterId, getOriginZoom(e, clusterId) - 1)

\* ====================================================================
\* The state machine: one engine, the caller's table and mask, and the
\* value returned by the last call.
VARIABLES engine, table, filterMask, out

vars == <<engine, table, filterMask, out>>

\* rows of the geometry column: <<lng, lat>>
RowA == <<Deg(-179) + 1, Deg(0)>>
RowC == <<Deg(-165) + 1, Deg(20)>>
RowD == <<Deg(175) + 2, Deg(0)>>
RowNaN == <<NaN, NaN>>
RowKinds == {RowA, RowC, RowD, RowNaN}

\* a table: its row count and its "geometry" column, when it has one
Tables ==
  UNION {{[numRows |-> n, hasGeometry |-> TRUE, geometry |-> g] :
            g \in [1..n -> RowKinds]} : n \in 0..MaxRows}

NoGeometryTable(n) == [numRows |-> n, hasGeometry |-> FALSE, geometry |-> << >>]

\* the filterMask argument: omitted or null (given = FALSE), or one byte
\* per row
NoMask == [given |-> FALSE, bits |-> << >>]
Masks(n) == {NoMask} \cup {[given |-> TRUE, bits |-> b] : b \in [1..n -> {0, 1}]}

\* a second table for the same engine, with its mask: no row, one row, two
\* rows at one place, two rows of which the mask excludes the first, three
\* rows of which two are on the edge of the world, and two coincident rows
\* with two rows around them
RowB == <<Deg(170) + 2, Deg(10)>>

\* two rows out of reach of RowA at every zoom and in reach of each other
\* from zoom 1 down, whose midpoint is in reach of RowA at zoom 0
RowQ1 == <<Deg(-152) + 16, 219>>
RowQ3 == <<Deg(-152) + 16, -219>>

\* rows on the edge of the world: the antimeridian, beyond the Mercator limit
RowNorth == <<Deg(180), Deg(90)>>
RowSouth == <<Deg(-180), Deg(-90)>>

TableOf(g) == [numRows |-> Len(g), hasGeometry |-> TRUE, geometry |-> g]

ReloadArgs ==
  {<<TableOf(<< >>), NoMask>>,
   <<TableOf(<<RowB>>), NoMask>>,
   <<TableOf(<<RowB, RowB>>), NoMask>>,
   <<TableOf(<<RowB, RowB>>), [given |-> TRUE, bits |-> <<0, 1>>]>>,
   <<TableOf(<<RowNorth, RowB, RowSouth>>), NoMask>>,
   <<TableOf(<<RowA, RowA, RowQ1, RowQ3>>), NoMask>>}

\* bounding boxes <<minLng, minLat, maxLng, maxLat>>
WorldBBox == <<Deg(-180), Deg(-85), Deg(180), Deg(85)>>
CrossingBBox == <<Deg(170), Deg(-10), Deg(-170), Deg(10)>>
EastBBox == <<Deg(170), Deg(-10), Deg(180), Deg(10)>>
WestBBox == <<Deg(-180), Deg(-10), Deg(-170), Deg(10)>>
BBoxArgs == {WorldBBox, CrossingBBox}

\* zoom arguments, in half levels
ZoomArgs == {0, 2 * maxZoom, 2 * maxZoom + 3}

\* the ids a caller can hold: every identity stored in some level
KnownIds(e) ==
  UNION {{e.treeData[z][j].id : j \in 1..Len(e.treeData[z])} :
           z \in DOMAIN e.treeData}

ClusterIds(e) ==
  UNION {{e.treeData[z][j].id :
            j \in {i \in 1..Len(e.treeData[z]) : e.treeData[z][i].num > 1}} :
           z \in DOMAIN e.treeData}

\* the ids passed to the navigation calls: every cluster id of the index and
\* the row index 0
IdArgs == ClusterIds(engine) \cup {0}

LimitArgs == {0, 1, 2, Infinity}
OffsetArgs == {0, 1, 2}

\* the fields of a constructed engine; coordValues = null is the empty buffer
NewEngine ==
  [trees |-> << >>, treeData |-> << >>, numPoints |-> 0,
   coordValues |-> << >>, bufPositions |-> << >>, bufPointCounts |-> << >>,
   bufIds |-> << >>, bufIsCluster |-> << >>, minPoints |-> minPoints]

\* the values of the option minPoints a caller passes: the default and one
\* above it
MinPointsArgs == {minPoints, minPoints + 1}

\* new ArrowClusterEngine({ minPoints })
NewEngineWith(mp) == [NewEngine EXCEPT !.minPoints = mp]

\* constructor
Init ==
  /\ engine = NewEngine
  /\ table \in Tables
  /\ filterMask \in Masks(table.numRows)
  /\ out = [op |-> "new"]

\* constructor, for a caller that passes no mask
InitNoMask ==
  /\ engine = NewEngine
  /\ table \in Tables
  /\ filterMask = NoMask
  /\ out = [op |-> "new"]

\* constructor, for a caller that passes no mask and whose rows are all in
\* reach of each other at the lowest zoom
InitNear ==
  /\ engine = NewEngine
  /\ table \in {t \in Tables :
                  \A i \in 1..t.numRows : t.geometry[i] \in {RowA, RowC}}
  /\ filterMask = NoMask
  /\ out = [op |-> "new"]

\* constructor with the option minPoints, for a caller that passes no mask
InitOptions ==
  /\ engine \in {NewEngineWith(mp) : mp \in MinPointsArgs}
  /\ table \in Tables
  /\ filterMask = NoMask
  /\ out = [op |-> "new"]

\* engine.load(table, "geometry", "id", filterMask)
Load ==
  LET r == load(engine, table, filterMask)
  IN  /\ engine' = r.engine
      /\ out' = [op |-> "load", threw |-> r.threw]
      /\ UNCHANGED <<table, filterMask>>

\* engine.load(t) for a table t of n rows without a geometry column
LoadNoGeometry ==
  \E n \in 0..MaxRows :
    LET r == load(engine, NoGeometryTable(n), NoMask)
    IN  /\ engine' = r.engine
        /\ out' = [op |-> "load", threw |-> r.threw]
        /\ UNCHANGED <<table, filterMask>>

\* engine.load(t, "geometry", "id", m) of another table on a loaded engine
Reload ==
  /\ DOMAIN engine.trees # {}
  /\ \E a \in ReloadArgs :
       LET r == load(engine, a[1], a[2])
       IN  /\ engine' = r.engine
           /\ table' = a[1]
           /\ filterMask' = a[2]
           /\ out' = [op |-> "load", threw |-> r.threw]

GetClusters ==
  \E bbox \in BBoxArgs, zoom \in ZoomArgs :
    LET r == getClusters(engine, bbox, zoom)
    IN  /\ engine' = r.engine
        /\ out' = [op |-> "getClusters", bbox |-> bbox, zoom |-> zoom,
                   ret |-> r.out]
        /\ UNCHANGED <<table, filterMask>>

\* GetChildren writing the children into the reusable buffers of getClusters
GetChildren_intoBuffers ==
  \E id \in IdArgs :
    \E c \in {getChildren(engine, id)} :
      /\ engine' = [engine EXCEPT
           !.bufPositions = setArray(@, subarray(c.positions, Len(@)), 0),
           !.bufPointCounts = setArray(@, subarray(c.pointCounts, Len(@)), 0),
           !.bufIds = setArray(@, subarray(c.ids, Len(@)), 0),
           !.bufIsCluster = setArray(@, subarray(c.isCluster, Len(@)), 0)]
      /\ out' = [op |-> "getChildren", id |-> id, ret |-> c]
      /\ UNCHANGED <<table, filterMask>>

GetChildren ==
  \E id \in IdArgs :
    /\ out' = [op |-> "getChildren", id |-> id,
               ret |-> getChildren(engine, id)]
    /\ UNCHANGED <<engine, table, filterMask>>

GetLeaves ==
  \E id \in IdArgs, limit \in LimitArgs, offset \in OffsetArgs :
    /\ out' = [op |-> "getLeaves", id |-> id, limit |-> limit,
               offset |-> offset,
               ret |-> getLeaves(engine, id, limit, offset)]
    /\ UNCHANGED <<engine, table, filterMask>>

GetClusterExpansionZoom ==
  \E id \in IdArgs :
    /\ out' = [op |-> "getClusterExpansionZoom", id |-> id,
               ret |-> getClusterExpansionZoom(engine, id)]
    /\ UNCHANGED <<engine, table, filterMask>>

GetOriginZoom ==
  \E id \in IdArgs :
    /\ out' = [op |-> "getOriginZoom", id |-> id,
               ret |-> getOriginZoom(engine, id)]
    /\ UNCHANGED <<engine, table, filterMask>>

GetOriginId ==
  \E id \in IdArgs :
    /\ out' = [op |-> "getOriginId", id |-> id,
               ret |-> getOriginId(engine, id)]
    /\ UNCHANGED <<engine, table, filterMask>>

\* load and the bounding-box query
Next ==
  \/ Load
  \/ GetClusters

Spec == Init /\ [][Next]_vars

\* load and the hierarchy navigation
NextNav ==
  \/ Load
  \/ GetChildren
  \/ GetLeaves
  \/ GetClusterExpansionZoom
  \/ GetOriginZoom
  \/ GetOriginId

SpecNav == Init /\ [][NextNav]_vars

\* load of the caller's table and of tables without a geometry column
NextThrow ==
  \/ Load
  \/ LoadNoGeometry

SpecThrow == Init /\ [][NextThrow]_vars

\* load, the load of another table, and the bounding-box query
NextReload ==
  \/ Load
  \/ Reload
  \/ GetClusters

SpecReload == InitNoMask /\ [][NextReload]_vars

\* load and every query
NextQuery ==
  \/ Load
  \/ GetClusters
  \/ GetChildren
  \/ GetLeaves
  \/ GetClusterExpansionZoom
  \/ GetOriginZoom
  \/ GetOriginId

SpecQuery == InitNear /\ [][NextQuery]_vars

\* load and getChildren on an engine constructed with the option minPoints
NextOptions ==
  \/ Load
  \/ GetChildren
  \/ GetClusterExpansionZoom
  \/ GetClusters

SpecOptions == InitOptions /\ [][NextOptions]_vars

\* ====================================================================
\* Properties

\* the caller's coordinate buffer and the rows load indexes
CallerCoords == getCoordBuffer(table.geometry)

Included(i) ==
  /\ (filterMask.given => filterMask.bits[i + 1] # 0)
  /\ table.geometry[i + 1][1] # NaN
  /\ table.geometry[i + 1][2] # NaN

IncludedRows == {i \in 0..(table.numRows - 1) : Included(i)}

\* a load has completed: the levels exist
Loaded == DOMAIN engine.trees # {}

\* what a caller reads from the output of getClusters(bbox, zoom)
Query(e, bbox, zoom) ==
  LET r == getClusters(e, bbox, zoom) IN deref(r.engine, r.out)

Concat(a, b) ==
  [length |-> a.length + b.length,
   positions |-> a.positions \o b.positions,
   pointCounts |-> a.pointCounts \o b.pointCounts,
   ids |-> a.ids \o b.ids,
   isCluster |-> a.isCluster \o b.isCluster]

\* the normalized longitudes of a bbox cross the antimeridian
Crosses(bbox) ==
  /\ bbox[3] - bbox[1] < Deg(360)
  /\ wrapLng(bbox[1]) >
       (IF bbox[3] = Deg(180) THEN Deg(180) ELSE wrapLng(bbox[3]))

EasternPart(bbox) == <<wrapLng(bbox[1]), bbox[2], Deg(180), bbox[4]>>
WesternPart(bbox) == <<Deg(-180), bbox[2], wrapLng(bbox[3]), bbox[4]>>

\* C1: the output of getClusters for a bbox that crosses the antimeridian is
\* the output of the eastern sub-query followed by the output of the western
\* sub-query, each as returned when queried on its own.
C1_AntimeridianIsConcatenation ==
  (out.op = "getClusters" /\ Crosses(out.bbox)) =>
    deref(engine, out.ret) =
      Concat(Query(engine, EasternPart(out.bbox), out.zoom),
             Query(engine, WesternPart(out.bbox), out.zoom))

\* everything a caller can observe of an engine through its queries, for the
\* ids of a given set
Observation(e, ids) ==
  [indexedPointCount |-> indexedPointCount(e),
   clusters |-> [b \in BBoxArgs |-> [z \in ZoomArgs |-> Query(e, b, z)]],
   children |-> [id \in ids |-> getChildren(e, id)],
   leaves |-> [id \in ids |-> getLeaves(e, id, Infinity, 0)],
   expansionZoom |-> [id \in ids |-> getClusterExpansionZoom(e, id)],
   originZoom |-> [id \in ids |-> getOriginZoom(e, id)],
   originId |-> [id \in ids |-> getOriginId(e, id)]]

\* C2: a load that throws leaves every query result as it was before the call.
C2_FailedLoadKeepsState ==
  [][(out'.op = "load" /\ out'.threw) =>
       Observation(engine', ClusterIds(engine) \cup {0})
         = Observation(engine, ClusterIds(engine) \cup {0})]_vars

\* the level and the 0-based index at which the cluster id was created: the
\* first item, over all levels, that has id as its parent (the merge centre
\* precedes the neighbours it consumes)
OriginLevelOf(e, id) ==
  CHOOSE z \in DOMAIN e.treeData :
    \E j \in 1..Len(e.treeData[z]) : e.treeData[z][j].parent = id

OriginIndexOf(e, id) ==
  LET data == e.treeData[OriginLevelOf(e, id)]
      j == CHOOSE k \in 1..Len(data) :
             /\ data[k].parent = id
             /\ \A m \in 1..(k - 1) : data[m].parent # id
  IN  j - 1

\* the cluster id decodes, with the given offset, to where it was created
DecodesWithOffset(e, id, offset) ==
  /\ id - offset = Shl5(OriginIndexOf(e, id)) + OriginLevelOf(e, id)
  /\ Rem32(id - offset) = OriginLevelOf(e, id)
  /\ (id - offset) \div 32 = OriginIndexOf(e, id)

\* C3 as stated: the offset of every cluster id is indexedPointCount.
C3_OffsetIsIndexedPointCount ==
  \A id \in ClusterIds(engine) :
    DecodesWithOffset(engine, id, indexedPointCount(engine))

\* C3 as amended: the offset of every cluster id is the number of rows of
\* the loaded table, excluded rows included, and the engine's decoders
\* recover the origin index and the origin zoom with it.
C3_OffsetIsRowCount ==
  Loaded =>
    \A id \in ClusterIds(engine) :
      /\ DecodesWithOffset(engine, id, table.numRows)
      /\ getOriginZoom(engine, id) = OriginLevelOf(engine, id)
      /\ getOriginId(engine, id) = OriginIndexOf(engine, id)

C3_Witness ==
  /\ out.op = "load"
  /\ ClusterIds(engine) # {}
  /\ Cardinality(IncludedRows) < table.numRows
  /\ indexedPointCount(engine) < table.numRows

RECURSIVE SumSeq(_)
SumSeq(q) == IF q = << >> THEN 0 ELSE Head(q) + SumSeq(Tail(q))

Distinct(q) == \A i, j \in 1..Len(q) : i # j => q[i] # q[j]

\* the cluster entries <<id, weight>> that getClusters returns over the
\* whole world at the levels minZoom .. maxZoom + 1
ReturnedClusters(e) ==
  UNION {LET q == Query(e, WorldBBox, 2 * z)
         IN  {<<q.ids[i], q.pointCounts[i]>> :
                i \in {j \in 1..q.length : q.isCluster[j] = 1}} :
         z \in Levels}

\* the leaves below a cluster id in depth-first order of the children
RECURSIVE LeafSequence(_, _)
RECURSIVE LeafSequenceOf(_, _, _)
LeafSequenceOf(e, c, i) ==
  IF i > Len(c.indices) THEN << >>
  ELSE LET node == c.data[c.indices[i] + 1]
       IN  (IF node.num > 1 THEN LeafSequence(e, node.id) ELSE <<node.id>>)
             \o LeafSequenceOf(e, c, i + 1)

LeafSequence(e, id) == LeafSequenceOf(e, getChildIndices(e, id), 1)

\* C4: getLeaves(id, limit, offset) of a cluster returns the leaves of the
\* depth-first leaf sequence after the first offset ones, min(limit,
\* max(0, weight - offset)) of them.
C4_GetLeavesPage ==
  out.op = "getLeaves" =>
    \A c \in ReturnedClusters(engine) :
      c[1] = out.id =>
        LET n == Min(out.limit, Max(0, c[2] - out.offset))
        IN  /\ Len(out.ret) = n
            /\ out.ret = SubSeq(LeafSequence(engine, out.id),
                                out.offset + 1, out.offset + n)

\* C5: the point counts of the children of a cluster entry add up to the
\* point count of the entry.
C5_ChildrenWeightSum ==
  out.op = "getChildren" =>
    \A c \in ReturnedClusters(engine) :
      c[1] = out.id => SumSeq(out.ret.pointCounts) = c[2]

C5_Witness ==
  /\ out.op = "getChildren"
  /\ \E c \in ReturnedClusters(engine) : c[1] = out.id /\ c[2] >= 3
  /\ \E i \in 1..out.ret.length : out.ret.isCluster[i] = 1
  /\ \E i \in 1..out.ret.length : out.ret.isCluster[i] = 0

\* C6: getLeaves(id) of a cluster entry returns as many row indices as the
\* entry's point count, pairwise distinct, each a row of the table.
C6_LeavesAreRows ==
  (out.op = "getLeaves" /\ out.limit = Infinity /\ out.offset = 0) =>
    \A c \in ReturnedClusters(engine) :
      c[1] = out.id =>
        /\ Len(out.ret) = c[2]
        /\ Distinct(out.ret)
        /\ \A j \in 1..Len(out.ret) :
             out.ret[j] >= 0 /\ out.ret[j] < table.numRows

C6_Witness ==
  /\ out.op = "getLeaves" /\ out.limit = Infinity /\ out.offset = 0
  /\ \E c \in ReturnedClusters(engine) : c[1] = out.id /\ c[2] >= 3
  /\ Len(out.ret) >= 3
  /\ \E id \in ClusterIds(engine) : id # out.id

\* a point entry reports the caller's coordinates of its row
PointEntriesExact(o) ==
  \A i \in 1..o.length :
    o.isCluster[i] = 0 =>
      /\ o.positions[2 * i - 1] = CallerCoords[2 * o.ids[i] + 1]
      /\ o.positions[2 * i] = CallerCoords[2 * o.ids[i] + 2]

\* a row whose longitude is changed by the projection to single precision
Inexact(i) == xLng(fround(lngX(CallerCoords[2 * i + 1]))) # CallerCoords[2 * i + 1]

\* C7: every point entry of getClusters and of getChildren reports the
\* position held in the caller's coordinate buffer at its identity.
C7_PointPositionsExact ==
  /\ out.op = "getClusters" => PointEntriesExact(deref(engine, out.ret))
  /\ Loaded => \A id \in ClusterIds(engine) :
                 PointEntriesExact(getChildren(engine, id))

C7_Witness ==
  /\ out.op = "getClusters"
  /\ LET o == deref(engine, out.ret)
     IN  \E i \in 1..o.length : o.isCluster[i] = 0 /\ Inexact(o.ids[i])
  /\ \E id \in ClusterIds(engine) :
       LET o == getChildren(engine, id)
       IN  \E i \in 1..o.length : o.isCluster[i] = 0 /\ Inexact(o.ids[i])

\* C8: indexedPointCount is 0 before any load and afterwards the number of
\* rows that the mask includes and whose coordinates are both numbers; load
\* does not throw on the other rows.
C8_IndexedPointCount ==
  /\ ~Loaded => indexedPointCount(engine) = 0
  /\ Loaded => indexedPointCount(engine) = Cardinality(IncludedRows)
  /\ out.op = "load" => ~out.threw

C8_Witness ==
  /\ out.op = "load"
  /\ filterMask.given
  /\ \E i \in 1..table.numRows : filterMask.bits[i] = 0
  /\ \E i \in 1..table.numRows :
       filterMask.bits[i] = 1 /\ table.geometry[i][1] = NaN
  /\ indexedPointCount(engine) > 0

MaskBit(i) == filterMask.bits[i + 1]

\* the identities of the point entries of an output
PointIds(o) == {o.ids[i] : i \in {j \in 1..o.length : o.isCluster[j] = 0}}

\* every leaf identity the queries report: the point entries of getClusters
\* at every level, the point entries of getChildren and the result of
\* getLeaves of every cluster
ReportedLeaves(e) ==
  UNION ({PointIds(Query(e, WorldBBox, 2 * z)) : z \in Levels}
         \cup {PointIds(getChildren(e, id)) : id \in ClusterIds(e)}
         \cup {{LET q == getLeaves(e, id, Infinity, 0)
                IN  q[j] : j \in 1..Len(getLeaves(e, id, Infinity, 0))} :
                 id \in ClusterIds(e)})

\* C9: after a load with a mask, every leaf identity a query reports is a
\* row whose mask byte is not 0, and the weight of a cluster entry counts
\* such rows only.
C9_MaskedRowsNeverReported ==
  (Loaded /\ filterMask.given) =>
    /\ \A i \in ReportedLeaves(engine) : MaskBit(i) # 0
    /\ out.op = "getLeaves" =>
         \A j \in 1..Len(out.ret) : MaskBit(out.ret[j]) # 0
    /\ \A c \in ReturnedClusters(engine) :
         c[2] = Cardinality({i \in 0..(table.numRows - 1) :
                   MaskBit(i) # 0 /\ InSeq(i, getLeaves(engine, c[1], Infinity, 0))})

C9_Witness ==
  /\ filterMask.given
  /\ \E i \in 0..(table.numRows - 1) :
       MaskBit(i) = 0 /\ table.geometry[i + 1] = RowA
  /\ \E i \in 0..(table.numRows - 1) :
       MaskBit(i) # 0 /\ table.geometry[i + 1] = RowA
  /\ out.op = "getLeaves"
  /\ Len(out.ret) >= 2
  /\ out.id \in ClusterIds(engine)

\* the table of the rows that the mask includes, in the same order, and the
\* number of included rows before row i
RECURSIVE KeptRows(_, _, _)
KeptRows(geometry, bits, i) ==
  IF i > Len(geometry) THEN << >>
  ELSE (IF bits[i] # 0 THEN <<geometry[i]>> ELSE << >>)
         \o KeptRows(geometry, bits, i + 1)

FilteredTable ==
  LET g == KeptRows(table.geometry, filterMask.bits, 1)
  IN  [numRows |-> Len(g), hasGeometry |-> TRUE, geometry |-> g]

Renumbered(i) == Cardinality({k \in 0..(i - 1) : MaskBit(k) # 0})

\* C10: right after a load with a mask, the engine reports at every level
\* the entries that a new engine reports after loading the table of the
\* included rows: as many, with the same weights and cluster flags, and the
\* point entries name the same rows up to the renumbering.
C10_MaskEqualsFilteredTable ==
  (out.op = "load" /\ filterMask.given) =>
    LET other == load(NewEngine, FilteredTable, NoMask).engine
    IN  /\ indexedPointCount(engine) = indexedPointCount(other)
        /\ \A z \in Levels :
             LET a == Query(engine, WorldBBox, 2 * z)
                 b == Query(other, WorldBBox, 2 * z)
             IN  /\ a.length = b.length
                 /\ a.pointCounts = b.pointCounts
                 /\ a.isCluster = b.isCluster
                 /\ \A i \in 1..a.length :
                      a.isCluster[i] = 0 => Renumbered(a.ids[i]) = b.ids[i]

C10_Witness ==
  /\ out.op = "load"
  /\ filterMask.given
  /\ \E i \in 0..(table.numRows - 1) : MaskBit(i) = 0
  /\ \E i \in 1..(table.numRows - 1) : MaskBit(i - 1) = 0 /\ MaskBit(i) # 0
  /\ ClusterIds(engine) # {}

\* the numbers a caller may pass as an id: every row index, every id that a
\* load of a table of at most MaxRows rows can produce (so the ids of other
\* loads), ids whose zoom field is outside the levels, ids whose index is
\* past the end of the level, and negative numbers
ForeignIds == (0 - 32 - 1)..(32 * MaxRows + 32 + MaxRows)

\* the id passes the two guards of _getChildIndices: it decodes to a level
\* that exists and to an index inside that level
PassesGuards(e, id) ==
  /\ getOriginZoom(e, id) \in DOMAIN e.treeData
  /\ getOriginId(e, id) >= 0
  /\ getOriginId(e, id) < Len(e.treeData[getOriginZoom(e, id)])

\* C11: for an id that is not the id of a cluster of the current load,
\* getChildren returns a zero-length output and getLeaves returns an empty
\* list: for every number of ForeignIds right after a load, and for every
\* call made with such an id.
C11_ForeignIdsGiveEmpty ==
  /\ out.op = "load" =>
       \A id \in ForeignIds \ ClusterIds(engine) :
         /\ getChildren(engine, id) = emptyOutput
         /\ getLeaves(engine, id, Infinity, 0) = << >>
  /\ (out.op = "getChildren" /\ out.id \notin ClusterIds(engine)) =>
       out.ret.length = 0
  /\ (out.op = "getLeaves" /\ out.id \notin ClusterIds(engine)) =>
       out.ret = << >>

C11_Witness ==
  /\ out.op = "getLeaves"
  /\ out.id \notin ClusterIds(engine)
  /\ out.id < table.numRows
  /\ out.ret = << >>
  /\ ClusterIds(engine) # {}
  /\ \E id \in ForeignIds \ ClusterIds(engine) :
       /\ PassesGuards(engine, id)
       /\ engine.treeData[getOriginZoom(engine, id)][getOriginId(engine, id) + 1].parent # -1
  /\ \E id \in ForeignIds \ ClusterIds(engine) :
       getOriginZoom(engine, id) \notin DOMAIN engine.treeData
  /\ \E id \in ForeignIds \ ClusterIds(engine) :
       /\ getOriginZoom(engine, id) \in DOMAIN engine.treeData
       /\ getOriginId(engine, id) >= Len(engine.treeData[getOriginZoom(engine, id)])

\* the ids of the cluster entries of an output
ClusterEntryIds(o) == {o.ids[i] : i \in {j \in 1..o.length : o.isCluster[j] = 1}}

\* every cluster id the queries of the engine return: the cluster entries of
\* getClusters over the world and over the antimeridian at every level, and
\* the cluster entries of getChildren of every cluster
ReturnedClusterIds(e) ==
  UNION ({ClusterEntryIds(Query(e, b, 2 * z)) : b \in BBoxArgs, z \in Levels}
         \cup {ClusterEntryIds(getChildren(e, id)) : id \in ClusterIds(e)})

\* the id decodes to an origin zoom in minZoom + 1 .. maxZoom + 1 and to an
\* index inside that level, and the item there has the id as its parent
DecodesToMergeCentre(e, id) ==
  /\ getOriginZoom(e, id) \in (minZoom + 1)..(maxZoom + 1)
  /\ PassesGuards(e, id)
  /\ e.treeData[getOriginZoom(e, id)][getOriginId(e, id) + 1].parent = id

\* the cluster items <<level, position>> of the index
ClusterItems(e) ==
  UNION {{<<z, j>> : j \in {i \in 1..Len(e.treeData[z]) :
                              e.treeData[z][i].num > 1}} :
           z \in DOMAIN e.treeData}

\* C12: every cluster id a query returns decodes to a level in
\* minZoom + 1 .. maxZoom + 1 and to a valid index of that level, where the
\* item is the merge centre (its parent is the id); two cluster items with
\* one id are the same cluster (one level apart copies), never two clusters
\* of one level.
C12_IdsDecodeToMergeCentre ==
  /\ \A id \in ReturnedClusterIds(engine) : DecodesToMergeCentre(engine, id)
  /\ out.op = "getClusters" =>
       \A id \in ClusterEntryIds(deref(engine, out.ret)) :
         DecodesToMergeCentre(engine, id)
  /\ \A a, b \in ClusterItems(engine) :
       LET na == engine.treeData[a[1]][a[2]]
           nb == engine.treeData[b[1]][b[2]]
       IN  na.id = nb.id =>
             /\ na.x = nb.x /\ na.y = nb.y /\ na.num = nb.num
             /\ (a[1] = b[1] => a[2] = b[2])

C12_Witness ==
  /\ out.op = "getClusters"
  /\ ClusterEntryIds(deref(engine, out.ret)) # {}
  /\ Cardinality(ReturnedClusterIds(engine)) >= 2
  /\ \E id \in ReturnedClusterIds(engine) : getOriginId(engine, id) > 0

\* the index state of an engine: the nodes of every level, the id offset and
\* the coordinate buffer
IndexState(e) ==
  [treeData |-> e.treeData, trees |-> e.trees, numPoints |-> e.numPoints,
   coordValues |-> e.coordValues]

\* C13: after any load that returns, on a new engine or on one that holds
\* the index of another table, the index state, indexedPointCount and every
\* query result are those of a new engine after the same load; the ids
\* queried are the cluster ids of the replaced load, those of the new load
\* and the row index 0.
C13_LoadReplacesIndex ==
  [][(out'.op = "load" /\ ~out'.threw) =>
       \A fresh \in {load(NewEngine, table', filterMask').engine} :
         \A ids \in {ClusterIds(engine) \cup ClusterIds(engine') \cup {0}} :
           /\ indexedPointCount(engine') = indexedPointCount(fresh)
           /\ IndexState(engine') = IndexState(fresh)
           /\ Observation(engine', ids) = Observation(fresh, ids)]_vars

\* a table of RowB only is loaded over the index of the first table, whose
\* buffers a query has written; the new load has a cluster
C13_Witness ==
  /\ out.op = "getClusters"
  /\ table.numRows = 2
  /\ table.geometry[1] = RowB
  /\ ClusterIds(engine) # {}
  /\ deref(engine, out.ret).length > 0

NavOps ==
  {"getChildren", "getLeaves", "getClusterExpansionZoom", "getOriginZoom",
   "getOriginId"}

\* the output getClusters returns when it reports n entries: views of the
\* first n entries of the reusable buffers
ViewOf(n) ==
  [view |-> TRUE, length |-> n, positions |-> << >>, pointCounts |-> << >>,
   ids |-> << >>, isCluster |-> << >>]

\* C14: a call of getChildren, getLeaves, getClusterExpansionZoom,
\* getOriginZoom or getOriginId leaves every element of the arrays that a
\* getClusters call has returned as it was: the views of every length over
\* the reusable buffers, and the output of the call just before.
C14_ViewsKeptByNavigation ==
  [][out'.op \in NavOps =>
       /\ \A n \in 0..Len(engine.bufIds) :
            deref(engine', ViewOf(n)) = deref(engine, ViewOf(n))
       /\ out.op = "getClusters" =>
            deref(engine', out.ret) = deref(engine, out.ret)]_vars

\* a getClusters call has written the buffers and a getChildren call that
\* returns entries has followed
C14_Witness ==
  /\ out.op = "getChildren"
  /\ out.ret.length >= 2
  /\ \E j \in 1..Len(engine.bufPointCounts) : engine.bufPointCounts[j] > 1
  /\ \E j \in 1..Len(engine.bufIds) : engine.bufIds[j] # out.ret.ids[1]

QueryOps == NavOps \cup {"getClusters"}

\* C15: no call of getClusters, getChildren, getLeaves,
\* getClusterExpansionZoom or of the decoders changes the index state: the
\* fields of the nodes of every level, the id offset, the coordinate buffer
\* and indexedPointCount.
C15_QueriesKeepIndex ==
  [][out'.op \in QueryOps =>
       /\ IndexState(engine') = IndexState(engine)
       /\ indexedPointCount(engine') = indexedPointCount(engine)]_vars

\* a getLeaves call that returns rows has followed a getClusters call that
\* wrote the buffers
C15_Witness ==
  /\ out.op = "getLeaves"
  /\ Len(out.ret) >= 2
  /\ \E j \in 1..Len(engine.bufPointCounts) : engine.bufPointCounts[j] > 0
  /\ indexedPointCount(engine) >= 3

\* zoom values from a level and a half below minZoom to a level and a half
\* above maxZoom + 1, in half levels
ZoomReals == (2 * minZoom - 3)..(2 * (maxZoom + 1) + 3)

\* the integer level of a zoom given in half levels: its floor, clamped to
\* minZoom .. maxZoom + 1
ClampedFloor(zoom) ==
  LET floor == (zoom - (zoom % 2)) \div 2
  IN  IF floor < minZoom THEN minZoom
      ELSE IF floor > maxZoom + 1 THEN maxZoom + 1
      ELSE floor

\* C16: getClusters(bbox, zoom) returns the entries of getClusters(bbox, z)
\* for the integer z = clamp(floor(zoom), minZoom, maxZoom + 1): for every
\* zoom of ZoomReals right after a load, and for every call made.
C16_ZoomIsClampedFloor ==
  /\ out.op = "load" =>
       \A b \in BBoxArgs, zoom \in ZoomReals :
         Query(engine, b, zoom) = Query(engine, b, 2 * ClampedFloor(zoom))
  /\ out.op = "getClusters" =>
       deref(engine, out.ret)
         = Query(engine, out.bbox, 2 * ClampedFloor(out.zoom))

\* a call with a fractional zoom above maxZoom + 1 has returned entries, on
\* an index whose levels differ
C16_Witness ==
  /\ out.op = "getClusters"
  /\ out.zoom % 2 = 1
  /\ out.zoom > 2 * (maxZoom + 1)
  /\ deref(engine, out.ret).length >= 2
  /\ Query(engine, WorldBBox, 2 * maxZoom)
       # Query(engine, WorldBBox, 2 * (maxZoom + 1))
  /\ Query(engine, WorldBBox, 2 * minZoom)
       # Query(engine, WorldBBox, 2 * maxZoom)

FullWorldBBox == <<Deg(-180), Deg(-90), Deg(180), Deg(90)>>

\* the included rows whose latitude is inside the latitudes of a bbox
RowsInLat(bbox) ==
  {i \in IncludedRows :
     table.geometry[i + 1][2] >= bbox[2] /\ table.geometry[i + 1][2] <= bbox[4]}

\* the output holds one point entry of weight 1 for each row of the set
AllPoints(o, rows) ==
  /\ o.length = Cardinality(rows)
  /\ {o.ids[i] : i \in 1..o.length} = rows
  /\ \A i \in 1..o.length : o.isCluster[i] = 0 /\ o.pointCounts[i] = 1

\* C17: after a load, getClusters over the full world at zoom maxZoom + 1
\* returns indexedPointCount entries, each a point of weight 1, one for each
\* indexed row; a call over the bbox of latitudes -85 .. 85 at a zoom of
\* maxZoom + 1 or more has returned the indexed rows of those latitudes.
C17_TopLevelIsPoints ==
  Loaded =>
    /\ Query(engine, FullWorldBBox, 2 * (maxZoom + 1)).length
         = indexedPointCount(engine)
    /\ AllPoints(Query(engine, FullWorldBBox, 2 * (maxZoom + 1)), IncludedRows)
    /\ (out.op = "getClusters" /\ out.bbox = WorldBBox
          /\ out.zoom >= 2 * (maxZoom + 1)) =>
         AllPoints(deref(engine, out.ret), RowsInLat(WorldBBox))

\* coincident rows, a NaN row, and a call at the top level
C17_Witness ==
  /\ out.op = "getClusters" /\ out.bbox = WorldBBox
  /\ out.zoom >= 2 * (maxZoom + 1)
  /\ ClusterIds(engine) # {}
  /\ indexedPointCount(engine) >= 2
  /\ indexedPointCount(engine) < table.numRows

\* rows on the edge of the world are indexed and reported by the full world
C17_WitnessEdge ==
  /\ out.op = "getClusters"
  /\ table.numRows >= 3
  /\ table.geometry[1] = RowNorth
  /\ RowsInLat(WorldBBox) # IncludedRows

\* the projected position of row i, as load stores it
RowPos(i) ==
  <<fround(lngX(table.geometry[i + 1][1])), fround(latY(table.geometry[i + 1][2]))>>

\* the sets of two or more indexed rows at one identical coordinate
Piles ==
  {S \in {{j \in IncludedRows : table.geometry[j + 1] = table.geometry[i + 1]} :
            i \in IncludedRows} : Cardinality(S) >= 2}

PileRow(S) == CHOOSE i \in S : TRUE

InReach(p, q, r) ==
  (p[1] - q[1]) * (p[1] - q[1]) + (p[2] - q[2]) * (p[2] - q[2]) <= r * r

\* no other indexed row is within the radius of minZoom, the largest one
OthersOutsideRadius(S) ==
  \A i \in IncludedRows \ S :
    ~InReach(RowPos(i), RowPos(PileRow(S)), radiusAt(minZoom))

\* the rows below an item of a level
LeafSet(e, node) ==
  IF node.num > 1
  THEN {getLeaves(e, node.id, Infinity, 0)[j] :
          j \in 1..Len(getLeaves(e, node.id, Infinity, 0))}
  ELSE {node.id}

\* in the passes of the zooms z .. maxZoom, no item that holds another row,
\* point or cluster centroid, is within the radius of the pass
NoOtherItemInReach(e, S, z) ==
  \A zz \in z..maxZoom :
    \A j \in 1..Len(e.treeData[zz + 1]) :
      InReach(<<e.treeData[zz + 1][j].x, e.treeData[zz + 1][j].y>>,
              RowPos(PileRow(S)), radiusAt(zz))
        => LeafSet(e, e.treeData[zz + 1][j]) \subseteq S

\* getClusters over the full world at zoom z reports the rows of S as one
\* entry: a cluster whose weight is the number of rows of S
ReportedAsOne(e, S, z) ==
  \A q \in {Query(e, FullWorldBBox, 2 * z)} :
    \A hits \in {{i \in 1..q.length :
                    \/ (q.isCluster[i] = 0 /\ q.ids[i] \in S)
                    \/ (q.isCluster[i] = 1 /\
                          \E j \in 1..Len(getLeaves(e, q.ids[i], Infinity, 0)) :
                            getLeaves(e, q.ids[i], Infinity, 0)[j] \in S)}} :
      /\ Cardinality(hits) = 1
      /\ \A i \in hits :
           q.isCluster[i] = 1 /\ q.pointCounts[i] = Cardinality(S)

C19_EmptyIndex ==
  (Loaded /\ IncludedRows = {}) =>
    /\ out.op = "load" => ~out.threw
    /\ indexedPointCount(engine) = 0
    /\ \A b \in {WorldBBox, FullWorldBBox, CrossingBBox, EastBBox, WestBBox} :
         \A zoom \in ZoomReals : Query(engine, b, zoom).length = 0
    /\ \A id \in ForeignIds :
         /\ getChildren(engine, id) = emptyOutput
         /\ getLeaves(engine, id, Infinity, 0) = << >>
    /\ out.op = "getClusters" => deref(engine, out.ret) = deref(engine, emptyOutput)

\* a table of two or more rows, some excluded by the mask and the others by
\* NaN, has been loaded and queried
C19_Witness ==
  /\ out.op = "getClusters"
  /\ out.bbox = CrossingBBox
  /\ IncludedRows = {}
  /\ table.numRows >= 2
  /\ filterMask.given
  /\ \E i \in 0..(table.numRows - 1) :
       MaskBit(i) = 0 /\ table.geometry[i + 1] # RowNaN
  /\ \E i \in 0..(table.numRows - 1) :
       MaskBit(i) # 0 /\ table.geometry[i + 1] = RowNaN

\* the ids that a call of _appendLeafIndices(id) passes to its recursive
\* calls, and that the loop of getClusterExpansionZoom may continue with:
\* the ids of the children of id that are clusters
ChildClusterIds(e, id) ==
  LET c == getChildIndices(e, id)
  IN  {c.data[c.indices[i] + 1].id :
         i \in {j \in 1..Len(c.indices) : c.data[c.indices[j] + 1].num > 1}}

\* the ids reached from a set of ids by n nested calls
RECURSIVE Descend(_, _, _)
Descend(e, ids, n) ==
  IF n = 0 THEN ids
  ELSE Descend(e, UNION {ChildClusterIds(e, id) : id \in ids}, n - 1)

\* the number of iterations of the loop of getClusterExpansionZoom: each
\* iteration adds 1 to expansionZoom, which starts at the origin zoom - 1
ExpansionIterations(e, id) ==
  getClusterExpansionZoom(e, id) - (getOriginZoom(e, id) - 1)

\* C20: every operation runs to completion.  load leaves every level built,
\* none longer than the level above.  A cluster item stored at level z has
\* an id whose origin zoom is in z + 1 .. maxZoom + 1, and the children of
\* an id are items of the level of its origin zoom, so each nested call of
\* _appendLeafIndices and each iteration of the expansion loop moves to a
\* higher level: from any id (cluster, row index, id of another load or any
\* other number) no chain of calls is longer than the number of levels, the
\* expansion loop makes at most maxZoom + 1 - start iterations, and
\* getChildren and getLeaves return at most indexedPointCount entries.
C20_OperationsTerminate ==
  Loaded =>
    /\ DOMAIN engine.treeData = Levels
    /\ \A z \in minZoom..maxZoom :
         Len(engine.treeData[z]) <= Len(engine.treeData[z + 1])
    /\ Len(engine.treeData[maxZoom + 1]) <= table.numRows
    /\ \A z \in Levels : \A j \in 1..Len(engine.treeData[z]) :
         engine.treeData[z][j].num > 1 =>
           getOriginZoom(engine, engine.treeData[z][j].id)
             \in (z + 1)..(maxZoom + 1)
    /\ out.op = "load" =>
         \A id \in ForeignIds \cup ClusterIds(engine) :
           /\ \A c \in ChildClusterIds(engine, id) :
                getOriginZoom(engine, c) > getOriginZoom(engine, id)
           /\ Descend(engine, {id}, maxZoom + 1 - minZoom) = {}
           /\ ExpansionIterations(engine, id) >= 0
           /\ ExpansionIterations(engine, id)
                <= Max(0, maxZoom + 1 - (getOriginZoom(engine, id) - 1))
           /\ getChildren(engine, id).length <= indexedPointCount(engine)
           /\ Len(getLeaves(engine, id, Infinity, 0)) <= indexedPointCount(engine)
    /\ out.op = "getClusterExpansionZoom" =>
         out.ret - (getOriginZoom(engine, out.id) - 1)
           \in 0..Max(0, maxZoom + 1 - (getOriginZoom(engine, out.id) - 1))
    /\ out.op = "getLeaves" => Len(out.ret) <= indexedPointCount(engine)

\* getLeaves has returned from a call that nests two levels deep: the
\* cluster has a child that is a cluster
C20_Witness ==
  /\ out.op = "getLeaves"
  /\ out.limit = Infinity
  /\ ChildClusterIds(engine, out.id) # {}
  /\ Descend(engine, {out.id}, 1) # {}
  /\ Descend(engine, {out.id}, 2) = {}
  /\ Len(out.ret) >= 3
  /\ \E id \in ForeignIds \ ClusterIds(engine) :
       ExpansionIterations(engine, id) = 1
  /\ \E id \in ForeignIds \ ClusterIds(engine) :
       ExpansionIterations(engine, id) = 0

\* the sum of the weights of the nodes of a level
LevelWeight(data) == SumNum(data, [k \in 1..Len(data) |-> k - 1])

\* the positions of the nodes of a level that carry the given identity
WithId(data, id) == {k \in 1..Len(data) : data[k].id = id}

\* the positions of the nodes of a level that were consumed into the id
ConsumedBy(data, id) == {k \in 1..Len(data) : data[k].parent = id}

\* C21: in the pass that derives level z from level z + 1 every node of
\* level z + 1 is handled once: it is marked with z, and either it is
\* consumed (its parent is the id of one node of level z, created at origin
\* zoom z + 1 with the weights of its consumed nodes added up, and level z
\* has no copy of it) or level z holds exactly one copy of it with the same
\* position and weight; level z has no other node, and the weights of every
\* level add up to indexedPointCount.  Only load writes the levels, so the
\* levels are examined in the state a load leaves.
C21_EveryNodeHandledOnce ==
  (Loaded /\ out.op = "load") =>
    /\ \A z \in minZoom..maxZoom :
         \A up \in {engine.treeData[z + 1]} : \A low \in {engine.treeData[z]} :
           /\ \A j \in 1..Len(up) :
                /\ up[j].zoom = z
                /\ IF up[j].parent # -1
                   THEN /\ Cardinality(WithId(low, up[j].parent)) = 1
                        /\ \A k \in WithId(low, up[j].parent) :
                             /\ low[k].num
                                  = SumNum(up, SortedSeq({q - 1 : q \in
                                      ConsumedBy(up, up[j].parent)}))
                             /\ getOriginZoom(engine, low[k].id) = z + 1
                        /\ WithId(low, up[j].id) = {}
                   ELSE /\ Cardinality(WithId(low, up[j].id)) = 1
                        /\ \A k \in WithId(low, up[j].id) :
                             /\ low[k].x = up[j].x /\ low[k].y = up[j].y
                             /\ low[k].num = up[j].num
           /\ Len(low)
                = Cardinality({j \in 1..Len(up) : up[j].parent = -1})
                  + Cardinality({up[j].parent : j \in
                                  {q \in 1..Len(up) : up[q].parent # -1}})
    /\ \A z \in Levels :
         LevelWeight(engine.treeData[z]) = indexedPointCount(engine)

\* minPoints is 3: a merge of two coincident rows has failed the threshold
\* at maxZoom, both rows were copied, and a lower pass has merged three rows
C21_Witness ==
  /\ out.op = "load"
  /\ engine.minPoints > 2
  /\ ClusterIds(engine) # {}
  /\ \E j, k \in 1..Len(engine.treeData[maxZoom]) :
       /\ j # k
       /\ engine.treeData[maxZoom][j].num = 1
       /\ engine.treeData[maxZoom][k].num = 1
       /\ engine.treeData[maxZoom][j].x = engine.treeData[maxZoom][k].x
       /\ engine.treeData[maxZoom][j].y = engine.treeData[maxZoom][k].y

\* the level above z as the pass for zoom z receives it: the marks and
\* parents that the pass writes are taken back (a fresh cluster or leaf has
\* mark Infinity, a copied node the mark of the pass that copied it)
PassInput(e, z) ==
  [k \in 1..Len(e.treeData[z + 1]) |->
     [e.treeData[z + 1][k] EXCEPT
        !.parent = -1,
        !.zoom = IF z = maxZoom
                    \/ (e.treeData[z + 1][k].num > 1
                        /\ getOriginZoom(e, e.treeData[z + 1][k].id) = z + 2)
                 THEN Infinity ELSE z + 1]]

\* the state of the pass for zoom z before it handles item n
RECURSIVE PassPrefix(_, _, _)
PassPrefix(e, z, n) ==
  IF n = 0 THEN [data |-> PassInput(e, z), nextData |-> << >>]
  ELSE LET s == PassPrefix(e, z, n - 1)
       IN  clusterItem(e, e.trees[z + 1], s.data, z, n - 1, s.nextData)

\* the not yet visited neighbours (positions) of item n within r(z)
OpenNeighbours(e, z, pre, n) ==
  {k \in 1..Len(pre.data) :
     /\ k # n + 1
     /\ pre.data[k].zoom > z
     /\ InReach(<<e.trees[z + 1][k].x, e.trees[z + 1][k].y>>,
                <<pre.data[n + 1].x, pre.data[n + 1].y>>, radiusAt(z))}

\* n.weight plus the weights of the not yet visited neighbours within r(z)
CandidateTotal(e, z, pre, n) ==
  pre.data[n + 1].num
    + SumNum(pre.data, SortedSeq({k - 1 : k \in OpenNeighbours(e, z, pre, n)}))

\* the nodes that the step from pre to post has appended to the level z
Appended(pre, post) ==
  {post.nextData[j] : j \in (Len(pre.nextData) + 1)..Len(post.nextData)}

\* item n is a merge centre of the pass: it was not visited before its turn
IsMergeCentre(e, z, n) == PassPrefix(e, z, n).data[n + 1].zoom > z

\* C22: in the pass for zoom z a merge centre n yields a new cluster iff
\* candidateTotal > n.weight and candidateTotal >= minPoints; the cluster
\* has weight candidateTotal, and n and every consumed neighbour get the
\* id of the cluster as parentId (an item that is not a merge centre yields
\* nothing); every node of weight above 1 of every level weighs at least
\* max(2, minPoints).  The passes are replayed in the state a load leaves.
C22_MergeThreshold ==
  (Loaded /\ out.op = "load") =>
    /\ \A z \in minZoom..maxZoom : \A n \in 0..(Len(engine.treeData[z + 1]) - 1) :
         \A pre \in {PassPrefix(engine, z, n)} :
         \A post \in {PassPrefix(engine, z, n + 1)} :
         \A id \in {encodeId(engine, n, z)} :
           IF pre.data[n + 1].zoom <= z
           THEN post = pre
           ELSE
             \A total \in {CandidateTotal(engine, z, pre, n)} :
               /\ (\E c \in Appended(pre, post) : c.id = id)
                    <=> (total > pre.data[n + 1].num /\ total >= engine.minPoints)
               /\ \A c \in Appended(pre, post) :
                    c.id = id =>
                      /\ c.num = total
                      /\ Cardinality(Appended(pre, post)) = 1
                      /\ \A k \in OpenNeighbours(engine, z, pre, n) \cup {n + 1} :
                           /\ post.data[k].parent = id
                           /\ engine.treeData[z + 1][k].parent = id
                      /\ \A k \in 1..Len(post.data) :
                           post.data[k].parent = id
                             => k \in OpenNeighbours(engine, z, pre, n) \cup {n + 1}
    /\ \A z \in minZoom..maxZoom :
         PassPrefix(engine, z, Len(engine.treeData[z + 1])).data
           = engine.treeData[z + 1]
    /\ \A z \in Levels : \A k \in 1..Len(engine.treeData[z]) :
         (engine.treeData[z][k].num > 1
            \/ engine.treeData[z][k].id >= engine.numPoints)
           => /\ engine.treeData[z][k].num >= 2
              /\ engine.treeData[z][k].num >= engine.minPoints

\* minPoints is 3: one merge centre had an open neighbour and stayed below
\* the threshold, another reached it and created a cluster
C22_Witness ==
  /\ out.op = "load"
  /\ engine.minPoints = 3
  /\ \E z \in minZoom..maxZoom : \E n \in 0..(Len(engine.treeData[z + 1]) - 1) :
       /\ IsMergeCentre(engine, z, n)
       /\ CandidateTotal(engine, z, PassPrefix(engine, z, n), n)
            > PassPrefix(engine, z, n).data[n + 1].num
       /\ CandidateTotal(engine, z, PassPrefix(engine, z, n), n) < 3
  /\ \E z \in minZoom..maxZoom : \E n \in 0..(Len(engine.treeData[z + 1]) - 1) :
       /\ IsMergeCentre(engine, z, n)
       /\ CandidateTotal(engine, z, PassPrefix(engine, z, n), n) >= 3
       /\ \E k \in 1..Len(engine.treeData[z]) :
            engine.treeData[z][k].id = encodeId(engine, n, z)

\* the walk the documentation describes, on the entries getChildren returns:
\* one more zoom per child set fetched, continued with the single child
\* while it is a cluster (steps bounds the walk by the number of levels)
RECURSIVE ExpansionWalk(_, _, _, _)
ExpansionWalk(e, id, zoom, steps) ==
  LET ch == getChildren(e, id)
  IN  IF ch.length # 1 \/ ch.isCluster[1] # 1 \/ steps = 0 THEN zoom + 1
      ELSE ExpansionWalk(e, ch.ids[1], zoom + 1, steps - 1)

\* C23: for a cluster id of the index (every cluster id that getClusters
\* returns is one) getClusterExpansionZoom gives the zoom of the walk that
\* starts at originZoom - 1, adds one per child set fetched, and goes on
\* only while there is exactly one child and it is a cluster; the result is
\* at least getOriginZoom(id) and at most maxZoom + 1.
C23_ExpansionZoomIsWalk ==
  (out.op = "getClusterExpansionZoom" /\ out.id \in ClusterIds(engine)) =>
    /\ out.ret = ExpansionWalk(engine, out.id,
                               getOriginZoom(engine, out.id) - 1,
                               maxZoom + 1 - minZoom)
    /\ out.ret >= getOriginZoom(engine, out.id)
    /\ out.ret <= maxZoom + 1

\* the expansion zoom of a cluster that getClusters returns at minZoom over
\* the whole world, in an index whose clusters arise at different zooms
C23_Witness ==
  /\ out.op = "getClusterExpansionZoom"
  /\ out.id \in ClusterEntryIds(Query(engine, FullWorldBBox, 2 * minZoom))
  /\ \E a, b \in ClusterIds(engine) :
       getOriginZoom(engine, a) # getOriginZoom(engine, b)

\* bounding boxes inside one world that do not cross the antimeridian: one
\* whose western edge falls between the centroid of RowA, RowA, RowC and its
\* single-precision value, one whose eastern edge does and whose northern
\* latitude is beyond 90, and the two halves around the antimeridian
PartialBBoxArgs ==
  {<<Deg(-175) + 21, Deg(-85), Deg(0), Deg(85)>>,
   <<Deg(-180), Deg(-10), Deg(-175) + 20, Deg(95)>>,
   <<Deg(-170), Deg(5), Deg(179), Deg(85)>>,
   EastBBox, WestBBox}

\* getClusters called with a partial bounding box
GetClustersPartial ==
  \E bbox \in PartialBBoxArgs, zoom \in ZoomArgs :
    LET r == getClusters(engine, bbox, zoom)
    IN  /\ engine' = r.engine
        /\ out' = [op |-> "getClusters", bbox |-> bbox, zoom |-> zoom,
                   ret |-> r.out]
        /\ UNCHANGED <<table, filterMask>>

NextBBox ==
  \/ Load
  \/ GetClustersPartial

SpecBBox == InitNoMask /\ [][NextBBox]_vars

\* the projected box of a bbox: [lngX(minLng), lngX(maxLng)] x
\* [latY(maxLat), latY(minLat)], latitudes clamped to -90 .. 90
ProjectedBox(bbox) ==
  [minX |-> lngX(bbox[1]), maxX |-> lngX(bbox[3]),
   minY |-> latY(Max(Deg(-90), Min(Deg(90), bbox[4]))),
   maxY |-> latY(Max(Deg(-90), Min(Deg(90), bbox[2])))]

InsideBox(p, box) ==
  /\ p.x >= box.minX /\ p.x <= box.maxX
  /\ p.y >= box.minY /\ p.y <= box.maxY

\* how many entries of an output carry the id
EntryCount(o, id) == Cardinality({i \in 1..o.length : o.ids[i] = id})

\* the output holds one entry for each node of the level whose position,
\* taken from coords, is inside the projected box, and no other entry
BoxSelects(o, data, coords, box) ==
  /\ \A k \in 1..Len(data) :
       EntryCount(o, data[k].id)
         = IF InsideBox(coords[k], box) THEN 1 ELSE 0
  /\ o.length = Cardinality({k \in 1..Len(data) : InsideBox(coords[k], box)})

\* C24 as stated: for a bbox that does not cross the antimeridian and spans
\* less than 360 degrees, getClusters returns each node of the selected
\* level whose projected (x, y), the position the node stores, is inside the
\* projected box exactly once, and no node outside it.
C24_BoxSelectsByNodePosition ==
  (Loaded /\ out.op = "getClusters" /\ out.bbox \in PartialBBoxArgs) =>
    BoxSelects(deref(engine, out.ret),
               engine.treeData[limitZoom(out.zoom)],
               engine.treeData[limitZoom(out.zoom)],
               ProjectedBox(out.bbox))

\* C24 amended: getClusters returns each node of the selected level whose
\* position in the spatial index, the single-precision value of its
\* projected (x, y), is inside the projected box exactly once, and no other
\* node; for a point node the two positions are the same.
C24_BoxSelectsByIndexPosition ==
  (Loaded /\ out.op = "getClusters" /\ out.bbox \in PartialBBoxArgs) =>
    /\ BoxSelects(deref(engine, out.ret),
                  engine.treeData[limitZoom(out.zoom)],
                  engine.trees[limitZoom(out.zoom)],
                  ProjectedBox(out.bbox))
    /\ \A k \in 1..Len(engine.treeData[maxZoom + 1]) :
         /\ engine.trees[maxZoom + 1][k].x = engine.treeData[maxZoom + 1][k].x
         /\ engine.trees[maxZoom + 1][k].y = engine.treeData[maxZoom + 1][k].y

\* a partial box has selected some nodes of a level and left out others,
\* among the selected a cluster
C24_Witness ==
  /\ out.op = "getClusters"
  /\ out.bbox \in PartialBBoxArgs
  /\ deref(engine, out.ret).length >= 1
  /\ deref(engine, out.ret).length < Len(engine.treeData[limitZoom(out.zoom)])
  /\ \E i \in 1..deref(engine, out.ret).length :
       deref(engine, out.ret).isCluster[i] = 1

\* the encoder and the decoders on large indexes.  The rows of a large
\* table are not enumerated: the engine holds the row count, and the index
\* of a merge centre within its level and the zoom of the pass are inputs.
TwoTo26 == 67108864

LargeRowCounts == {60000001, TwoTo26 + 2, 100000001, 2 * TwoTo26 + 1}

OriginIndexArgs ==
  {0, 1, 60000000, TwoTo26, TwoTo26 + 1, 100000000, 2 * TwoTo26 - 1, 2 * TwoTo26}

LargeTable(n) == [numRows |-> n, hasGeometry |-> TRUE, geometry |-> << >>]

InitIds ==
  /\ \E n \in LargeRowCounts :
       /\ engine = [NewEngine EXCEPT !.numPoints = n]
       /\ table = LargeTable(n)
  /\ filterMask = NoMask
  /\ out = [op |-> "new"]

\* line 378 for the item at the index of a level, in the pass for the zoom
EncodeId ==
  \E index \in {i \in OriginIndexArgs : i < engine.numPoints},
     zoom \in minZoom..maxZoom :
    /\ out' = [op |-> "encodeId", index |-> index, zoom |-> zoom,
               id |-> encodeId(engine, index, zoom)]
    /\ UNCHANGED <<engine, table, filterMask>>

\* getOriginId and getOriginZoom of the id encoded last
DecodeId ==
  /\ out.op = "encodeId"
  /\ out' = [op |-> "decodeId", index |-> out.index, zoom |-> out.zoom,
             id |-> out.id,
             originId |-> getOriginId(engine, out.id),
             originZoom |-> getOriginZoom(engine, out.id)]
  /\ UNCHANGED <<engine, table, filterMask>>

NextIds ==
  \/ EncodeId
  \/ DecodeId

SpecIds == InitIds /\ [][NextIds]_vars

\* C25: cluster ids stay decodable beyond the 32-bit range: for every origin
\* index and zoom, also where originIndex << 5 does not fit in a signed
\* 32-bit integer, the encoded id is not wrapped (it lies above the offset
\* and its index field is the origin index) and getOriginId and
\* getOriginZoom return the index and the origin zoom that were encoded.
C25_IdsDecodeBeyond32Bits ==
  /\ out.op = "encodeId" =>
       /\ out.id - engine.numPoints > 0
       /\ (out.id - engine.numPoints) \div 32 = out.index
  /\ out.op = "decodeId" =>
       /\ out.originId = out.index
       /\ out.originZoom = out.zoom + 1

\* C26: the reusable buffers, allocated by load for the number of nodes of
\* level maxZoom + 1, hold every result: no level has more nodes than the
\* level above, the four buffers have room for indexedPointCount entries,
\* and a getClusters result that is a view of the buffers (not a merge of
\* two sub-queries) has at most indexedPointCount entries, every one of
\* them inside the buffers.
C26_BuffersSuffice ==
  Loaded =>
    /\ \A z \in minZoom..maxZoom :
         Len(engine.treeData[z]) <= Len(engine.treeData[z + 1])
    /\ Len(engine.bufIds) = indexedPointCount(engine)
    /\ Len(engine.bufPointCounts) = indexedPointCount(engine)
    /\ Len(engine.bufIsCluster) = indexedPointCount(engine)
    /\ Len(engine.bufPositions) = 2 * indexedPointCount(engine)
    /\ (out.op = "getClusters" /\ out.ret.view) =>
         /\ out.ret.length <= indexedPointCount(engine)
         /\ Len(deref(engine, out.ret).ids) = out.ret.length
         /\ Len(deref(engine, out.ret).pointCounts) = out.ret.length
         /\ Len(deref(engine, out.ret).isCluster) = out.ret.length
         /\ Len(deref(engine, out.ret).positions) = 2 * out.ret.length

\* a query of level maxZoom + 1 has filled the buffers to the last entry, on
\* an index whose lowest level is shorter and where a merge failed minPoints
C26_Witness ==
  /\ out.op = "getClusters"
  /\ out.ret.view
  /\ out.ret.length = Len(engine.bufIds)
  /\ out.ret.length >= 3
  /\ Len(engine.treeData[minZoom]) < Len(engine.treeData[maxZoom + 1])
  /\ engine.minPoints = 3

\* C27: every cluster of the current load has at least two immediate
\* children: getChildren(id) returns two entries or more, whose weights add
\* up to the weight of the cluster, and getClusterExpansionZoom(id) is
\* getOriginZoom(id).
C27_ClustersHaveTwoChildren ==
  /\ (out.op = "getChildren" /\ out.id \in ClusterIds(engine)) =>
       /\ out.ret.length >= 2
       /\ \A z \in Levels : \A k \in 1..Len(engine.treeData[z]) :
            engine.treeData[z][k].id = out.id =>
              engine.treeData[z][k].num
                = SumNum([j \in 1..out.ret.length |->
                            [num |-> out.ret.pointCounts[j]]],
                         [j \in 1..out.ret.length |-> j - 1])
  /\ (out.op = "getClusterExpansionZoom" /\ out.id \in ClusterIds(engine)) =>
       out.ret = getOriginZoom(engine, out.id)

\* getChildren of a cluster of three rows has returned two entries, one of
\* them a cluster of two
C27_Witness ==
  /\ out.op = "getChildren"
  /\ out.id \in ClusterIds(engine)
  /\ out.ret.length = 2
  /\ \E j \in 1..2 : out.ret.isCluster[j] = 1 /\ out.ret.pointCounts[j] = 2

\* the leaf sets of the nodes of a level, by position
LevelLeafSets(e, z) ==
  [k \in 1..Len(e.treeData[z]) |-> LeafSet(e, e.treeData[z][k])]

\* C28: at every zoom z in minZoom .. maxZoom + 1 the entries of level z
\* partition the indexed rows: with the leaf set of a point entry its own
\* row index and the leaf set of a cluster entry the rows getLeaves(id)
\* returns, the leaf sets of one level are pairwise disjoint, their union is
\* the set of indexed rows, and each has as many rows as the entry weighs.
C28_LevelsPartitionRows ==
  (Loaded /\ out.op = "load") =>
    \A z \in Levels : \A sets \in {LevelLeafSets(engine, z)} :
      /\ \A j, k \in 1..Len(sets) : j # k => sets[j] \cap sets[k] = {}
      /\ UNION {sets[k] : k \in 1..Len(sets)} = IncludedRows
      /\ \A k \in 1..Len(sets) :
           Cardinality(sets[k]) = engine.treeData[z][k].num

\* a load has built a level that holds a cluster next to a point, below a
\* level of points only
C28_Witness ==
  /\ Loaded
  /\ out.op = "load"
  /\ IncludedRows = 0..(MaxRows - 1)
  /\ \E z \in Levels : \E j, k \in 1..Len(engine.treeData[z]) :
       engine.treeData[z][j].num > 1 /\ engine.treeData[z][k].num = 1

\* C29: cluster ids and row indices never collide, and the flag agrees with
\* both: for every entry that getClusters or getChildren returns, isCluster
\* is 1 iff the weight is above 1 iff the id is at least the number of rows
\* of the loaded table; a point entry has weight 1 and the index of an
\* indexed row, below the number of rows, as its id.
C29_FlagWeightAndIdAgree ==
  (Loaded /\ out.op \in {"getClusters", "getChildren"}) =>
    \A o \in {deref(engine, out.ret)} : \A i \in 1..o.length :
      /\ o.isCluster[i] \in {0, 1}
      /\ o.isCluster[i] = 1 <=> o.pointCounts[i] > 1
      /\ o.pointCounts[i] > 1 <=> o.ids[i] >= table.numRows
      /\ o.isCluster[i] = 0 =>
           /\ o.pointCounts[i] = 1
           /\ o.ids[i] \in IncludedRows

\* getChildren has returned a cluster entry and a point entry for a table
\* that has more rows than are indexed
C29_Witness ==
  /\ Loaded
  /\ out.op = "getChildren"
  /\ \E i, j \in 1..out.ret.length :
       out.ret.isCluster[i] = 1 /\ out.ret.isCluster[j] = 0
  /\ indexedPointCount(engine) = MaxRows

\* getClusters has returned a cluster entry for a table of which one row is
\* not indexed, so that the offset of the ids is above indexedPointCount
C29_WitnessOffset ==
  /\ Loaded
  /\ out.op = "getClusters"
  /\ \E i \in 1..deref(engine, out.ret).length :
       deref(engine, out.ret).isCluster[i] = 1
  /\ indexedPointCount(engine) < table.numRows

\* ====================================================================
\* ArrowClusterLayer (arrow-cluster-layer.ts).  The variables are read as
\* the layer sees them: table and filterMask are props.data and
\* props.filterMask of the last update (oldProps of the next one), engine
\* is state.engine when out.hasEngine, and out holds the rest of the props
\* and of the state.
nullId == 0 - Infinity

nullSet == [isNull |-> TRUE, ids |-> {}]

\* new Set(leafIndices)
SetOf(seq) == [isNull |-> FALSE, ids |-> {seq[j] : j \in 1..Len(seq)}]

LayerTables ==
  {TableOf(<< >>), TableOf(<<RowA, RowA>>), TableOf(<<RowA, RowC>>),
   TableOf(<<RowA, RowA, RowC>>)}

\* props.filterMask: null, or a mask that leaves out the first row
LayerMasks(t) ==
  {NoMask} \cup
  {[given |-> TRUE, bits |-> [j \in 1..t.numRows |-> IF j = 1 THEN 0 ELSE 1]] :
     n \in {t.numRows} \ {0}}

\* Math.floor(viewport.zoom)
LayerZooms == {minZoom, maxZoom}

\* initializeState
InitLayer ==
  /\ engine = NewEngine
  /\ table = TableOf(<< >>)
  /\ filterMask = NoMask
  /\ out = [op |-> "initializeState", hasEngine |-> FALSE,
            minPoints |-> minPoints, focusedClusterId |-> nullId,
            focusedChildrenIds |-> nullSet, clusterOutput |-> emptyOutput,
            lastQueriedZoom |-> 0 - Infinity]

\* _rebuildEngine(props): state.engine, and whether there is one
rebuildEngine(data, mask, mp) ==
  IF data.numRows = 0 THEN [hasEngine |-> FALSE, engine |-> NewEngine]
  ELSE [hasEngine |-> TRUE,
        engine |-> load(NewEngineWith(mp), data, mask).engine]

\* _updateFocusedChildren(focusedClusterId) on state.engine
updateFocusedChildren(hasEngine, e, focusedClusterId) ==
  IF ~hasEngine \/ focusedClusterId = nullId THEN nullSet
  ELSE SetOf(getLeaves(e, focusedClusterId, Infinity, 0))

\* the ids a host application passes as focusedClusterId: none, the one it
\* passed before, or the id of a cluster of the engine the layer holds
FocusArgs ==
  {nullId, out.focusedClusterId}
    \cup (IF out.hasEngine THEN ClusterIds(engine) ELSE {})

\* updateState({props, oldProps, changeFlags}); oldProps of the first update
\* has no fields, so every prop differs
UpdateState ==
  \E data \in LayerTables, mp \in MinPointsArgs, zoom \in LayerZooms,
     focus \in FocusArgs :
    \E mask \in LayerMasks(data) :
    \E first \in {out.op = "initializeState"} :
    \E engineChanged \in {\/ first
                          \/ data # table
                          \/ mask # filterMask
                          \/ mp # out.minPoints} :
    \E built \in {IF engineChanged THEN rebuildEngine(data, mask, mp)
                  ELSE [hasEngine |-> out.hasEngine, engine |-> engine]} :
    \E requery \in {engineChanged \/ zoom # out.lastQueriedZoom} :
    \E queried \in {IF requery /\ built.hasEngine
                    THEN getClusters(built.engine, WorldBBox, 2 * zoom)
                    ELSE [engine |-> built.engine,
                          out |-> IF requery THEN emptyOutput
                                  ELSE out.clusterOutput]} :
    \E focusChanged \in {first \/ focus # out.focusedClusterId} :
      /\ engine' = queried.engine
      /\ table' = data
      /\ filterMask' = mask
      /\ out' = [op |-> "updateState",
                 hasEngine |-> built.hasEngine,
                 minPoints |-> mp,
                 focusedClusterId |-> focus,
                 focusedChildrenIds |->
                   IF focusChanged
                   THEN updateFocusedChildren(built.hasEngine, queried.engine,
                                              focus)
                   ELSE out.focusedChildrenIds,
                 clusterOutput |-> queried.out,
                 lastQueriedZoom |->
                   IF requery THEN zoom ELSE out.lastQueriedZoom]

NextLayer ==
  \/ UpdateState

SpecLayer == InitLayer /\ [][NextLayer]_vars

\* C30: after every updateState the stored focusedChildrenIds agrees with
\* the engine the layer holds: it is null when there is no engine or
\* focusedClusterId is null, and otherwise the set of getLeaves(
\* focusedClusterId) on that engine, also after the engine was rebuilt while
\* focusedClusterId stayed the same.
C30_FocusedChildrenFollowEngine ==
  out.op = "updateState" =>
    out.focusedChildrenIds
      = updateFocusedChildren(out.hasEngine, engine, out.focusedClusterId)

=============================================================================
